---- MODULE Spec2Model ----
(***************************************************************************)
(* Model of starknet-scrape: the stateful-compression Lookup (lookup.rs)   *)
(* over its redb store, the streaming state-diff parser (parser.rs) that   *)
(* records into it, commits it and resolves compressed indices, the bucket *)
(* decompressor (decomp.rs) and the contract-update unpacker (packing.rs). *)
(*                                                                         *)
(* Spec drives the Lookup through its public interface, SpecOrder does the *)
(* same while remembering the highest block number of the run, SpecParse   *)
(* is a scan: blobs parsed one after another, step by step. SpecDecomp is  *)
(* one decompress, step by step, of a compressed or damaged sequence, and  *)
(* SpecUnpack the unpacking of packed words.                               *)
(*                                                                         *)
(* A field element (BigUint) is modelled exactly, as the set of the        *)
(* positions of its one bits: masks are intersections, shifts move the     *)
(* positions, comparison looks at the highest differing bit.               *)
(***************************************************************************)
EXTENDS Integers, Sequences, FiniteSets, TLC

VARIABLES
    scratchpad,      \* Lookup.scratchpad: BTreeMap<u64, BigUint>
    cur_block_no,    \* Lookup.cur_block_no: Option<u64>
    db,              \* Lookup.db: the redb tables phase_change and lookup_table
    ret,             \* what the last call returned to its caller
    parser,          \* the StateUpdateParser of the parse in progress
    pc,              \* where StateUpdateParser::parse stands
    num_contracts,   \* parse_contract_updates: the count read
    contract_updates,    \* parse_contract_updates: the updates collected so far
    class_declarations,  \* parse: the declarations parsed
    hi,              \* the highest block number set in this run (Dumper.cur_block_no)
    recorded,        \* history: index -> value of every scratchpad entry committed
    input,           \* history: the blob and the store at the start of the parse
    log,             \* history: the parses that have ended
    decompressor     \* the Decompressor of the decompress in progress, and its locals

lookupVars == <<scratchpad, cur_block_no, db>>
parseVars == <<parser, pc, num_contracts, contract_updates, class_declarations,
               decompressor>>
histVars == <<hi, recorded, input, log>>
vars == <<scratchpad, cur_block_no, db, ret, parser, pc, num_contracts,
          contract_updates, class_declarations, hi, recorded, input, log,
          decompressor>>

----------------------------------------------------------------------------
(* Bounds of the model *)

\* block numbers are drawn from 1..MaxBlock
MaxBlock == 2
\* record indices are drawn from START_INDEX-1 .. START_INDEX+MaxOffset
MaxOffset == 2
\* a scan parses at most MaxParses blobs
MaxParses == 2

----------------------------------------------------------------------------
(* Option and Result *)

None == [tag |-> "None"]
Some(x) == [tag |-> "Some", v |-> x]
IsSome(o) == o.tag = "Some"

Unit == "()"
Ok(x) == [ok |-> TRUE, v |-> x]
Err(msg) == [ok |-> FALSE, err |-> msg]

----------------------------------------------------------------------------
(* BigUint as the set of its one-bit positions *)

SetMax(S) == CHOOSE x \in S : \A y \in S : y <= x
SetMin(S) == CHOOSE x \in S : \A y \in S : x <= y

\* the BigUint of a machine integer below 2^31
Felt(n) == {b \in 0..30 : (n \div (2^b)) % 2 = 1}

RECURSIVE SumPow(_)
SumPow(S) == IF S = {} THEN 0 ELSE LET b == SetMax(S) IN 2^b + SumPow(S \ {b})

\* the machine integer of a BigUint below 2^31
FeltNat(f) == SumPow(f)

is_zero(f) == f = {}

\* BigUint comparison a > b
FeltGt(a, b) == a # b /\ SetMax((a \ b) \cup (b \ a)) \in a
FeltGe(a, b) == a = b \/ FeltGt(a, b)

\* BigUint::to_u64 / to_usize (64-bit target): None when a bit >= 64 is set.
\* Model inputs that fit 64 bits are below 2^31.
to_u64(f) == IF \A b \in f : b < 64 THEN Some(FeltNat(f)) ELSE None

\* BigUint::to_bytes_be: big-endian bytes, no leading zero byte, [0] for zero
ByteAt(f, k) == SumPow({b \in 0..7 : (8 * k + b) \in f})
to_bytes_be(f) ==
    IF f = {} THEN <<0>>
    ELSE LET n == (SetMax(f) \div 8) + 1 IN [i \in 1..n |-> ByteAt(f, n - i)]

\* the same bytes read little-endian, for comparison
from_bytes_le(bytes) ==
    LET n == Len(bytes) IN
    UNION {{8 * (i - 1) + b : b \in {c \in 0..7 : (bytes[i] \div (2^c)) % 2 = 1}} : i \in 1..n}

\* BigUint::from_bytes_be
from_bytes_be(bytes) ==
    LET n == Len(bytes) IN
    UNION {{8 * (n - i) + b : b \in {c \in 0..7 : (bytes[i] \div (2^c)) % 2 = 1}} : i \in 1..n}

----------------------------------------------------------------------------
(* The redb store: a table either does not exist yet or holds rows *)

EmptyMap == [x \in {} |-> 0]
Put(f, k, v) == [x \in (DOMAIN f) \cup {k} |-> IF x = k THEN v ELSE f[x]]

NoTable == [exists |-> FALSE, rows |-> EmptyMap]
\* WriteTransaction::open_table creates the table when it is missing
OpenForWrite(t) == [exists |-> TRUE, rows |-> t.rows]
Insert(t, k, v) == [exists |-> TRUE, rows |-> Put(t.rows, k, v)]

START_INDEX == 128
STATEFUL_COMPRESSION_START == "stateful"
STATEFUL_COMPRESSION_CREST == "crest"

EmptyDb == [phase_change |-> NoTable, lookup_table |-> NoTable]

\* the Lookup object as one value
Lookup(s, c, d) == [scratchpad |-> s, cur_block_no |-> c, db |-> d]

----------------------------------------------------------------------------
(* Lookup (lookup.rs) *)

new(d) == Lookup(EmptyMap, None, d)

set_block_no(lk, b) == [lk EXCEPT !.cur_block_no = Some(b)]

\* a record that would let a repeated index overwrite, for comparison
record_overwrite(lk, index, value) ==
    IF index < START_INDEX THEN [lk |-> lk, res |-> Err("index too small")]
    ELSE IF index \in DOMAIN lk.scratchpad
         THEN [lk |-> [lk EXCEPT !.scratchpad = Put(lk.scratchpad, index, value)],
               res |-> Err("index repeated")]
         ELSE [lk |-> [lk EXCEPT !.scratchpad = Put(lk.scratchpad, index, value)],
               res |-> Ok(Unit)]

record(lk, index, value) ==
    IF index < START_INDEX THEN [lk |-> lk, res |-> Err("index too small")]
    ELSE LET inserted == Put(lk.scratchpad, index, value) IN
         IF index \in DOMAIN lk.scratchpad
         THEN \* insert returned the old value: put it back
              [lk |-> [lk EXCEPT !.scratchpad = Put(inserted, index, lk.scratchpad[index])],
               res |-> Err("index repeated")]
         ELSE [lk |-> [lk EXCEPT !.scratchpad = inserted], res |-> Ok(Unit)]

get_table_size(lk) ==
    IF ~lk.db.lookup_table.exists THEN 0
    ELSE Cardinality(DOMAIN lk.db.lookup_table.rows)

get_cur_block_no(lk) ==
    IF IsSome(lk.cur_block_no) THEN Ok(lk.cur_block_no.v)
    ELSE Err("Lookup.cur_block_no not set")

\* a get_crest that would never find crest, for comparison
get_crest_unset(lk) == None

get_crest(lk) ==
    IF ~lk.db.phase_change.exists THEN None
    ELSE IF STATEFUL_COMPRESSION_CREST \in DOMAIN lk.db.phase_change.rows
         THEN Some(lk.db.phase_change.rows[STATEFUL_COMPRESSION_CREST])
         ELSE None

\* a set_stateful_compression that would move stateful too, for comparison
set_stateful_compression_always_start(lk, txn) ==
    LET b == get_cur_block_no(lk) IN
    IF ~b.ok THEN b
    ELSE Ok([txn EXCEPT !.phase_change =
                Insert(Insert(txn.phase_change, STATEFUL_COMPRESSION_CREST, b.v),
                       STATEFUL_COMPRESSION_START, b.v)])

\* returns the transaction with crest (and, the first time, stateful) written
set_stateful_compression(lk, txn) ==
    LET b == get_cur_block_no(lk) IN
    IF ~b.ok THEN b
    ELSE LET phase_change == OpenForWrite(txn.phase_change)
             updated == STATEFUL_COMPRESSION_CREST \notin DOMAIN phase_change.rows
             withCrest == Insert(phase_change, STATEFUL_COMPRESSION_CREST, b.v)
         IN Ok([txn EXCEPT !.phase_change =
                    IF updated THEN Insert(withCrest, STATEFUL_COMPRESSION_START, b.v)
                    ELSE withCrest])

\* returns the transaction with the entry written; the assert aborts the call
set_expansion(txn, index, value) ==
    LET bytes == to_bytes_be(value)
        table == OpenForWrite(txn.lookup_table)
    IN IF index \in DOMAIN table.rows THEN Err("assertion failed: opt_old.is_none()")
       ELSE Ok([txn EXCEPT !.lookup_table = Insert(table, index, bytes)])

\* BTreeMap::into_iter: the keys in ascending order
RECURSIVE Ascending(_)
Ascending(S) == IF S = {} THEN <<>> ELSE LET m == SetMin(S) IN <<m>> \o Ascending(S \ {m})

\* the loop testing the first index only, for comparison
RECURSIVE ExpandLoopFirstOnly(_, _, _, _, _)
ExpandLoopFirstOnly(keys, scratch, txn, sz, first) ==
    IF keys = <<>> THEN Ok([txn |-> txn, sz |-> sz])
    ELSE LET index == Head(keys) IN
         IF first /\ index - START_INDEX # sz
         THEN [ok |-> FALSE, err |-> "lookup table not complete before", txn |-> txn]
         ELSE LET e == set_expansion(txn, index, scratch[index]) IN
              IF ~e.ok THEN [ok |-> FALSE, err |-> e.err, txn |-> txn]
              ELSE ExpandLoopFirstOnly(Tail(keys), scratch, e.v, sz + 1, FALSE)

\* the loop without the index test, for comparison
RECURSIVE ExpandLoopUnchecked(_, _, _, _, _)
ExpandLoopUnchecked(keys, scratch, txn, sz, first) ==
    IF keys = <<>> THEN Ok([txn |-> txn, sz |-> sz])
    ELSE ExpandLoopUnchecked(Tail(keys), scratch,
             [txn EXCEPT !.lookup_table =
                 Insert(txn.lookup_table, Head(keys), to_bytes_be(scratch[Head(keys)]))],
             sz + 1, FALSE)

\* the for loop of do_expand over the taken scratchpad
RECURSIVE ExpandLoop(_, _, _, _, _)
ExpandLoop(keys, scratch, txn, sz, first) ==
    IF keys = <<>> THEN Ok([txn |-> txn, sz |-> sz])
    ELSE LET index == Head(keys) IN
         IF index - START_INDEX # sz
         THEN [ok |-> FALSE,
               err |-> IF first THEN "lookup table not complete before"
                       ELSE "index not consecutive",
               txn |-> txn]
         ELSE LET e == set_expansion(txn, index, scratch[index]) IN
              IF ~e.ok THEN [ok |-> FALSE, err |-> e.err, txn |-> txn]
              ELSE ExpandLoop(Tail(keys), scratch, e.v, sz + 1, FALSE)

\* a do_expand that would commit the entries written ahead of an error, for comparison
do_expand_partial(lk) ==
    LET taken == [lk EXCEPT !.scratchpad = EmptyMap]
        loop == ExpandLoop(Ascending(DOMAIN lk.scratchpad), lk.scratchpad, lk.db,
                           get_table_size(lk), TRUE)
    IN IF ~loop.ok THEN [lk |-> [taken EXCEPT !.db = loop.txn], res |-> Err(loop.err)]
       ELSE LET sc == set_stateful_compression(taken, loop.v.txn) IN
            IF ~sc.ok THEN [lk |-> taken, res |-> sc]
            ELSE [lk |-> [taken EXCEPT !.db = sc.v], res |-> Ok(Unit)]

do_expand(lk) ==
    LET scratch == lk.scratchpad
        taken == [lk EXCEPT !.scratchpad = EmptyMap]          \* std::mem::take
        sz == get_table_size(lk)
        txn == lk.db                                          \* begin_write
        loop == ExpandLoop(Ascending(DOMAIN scratch), scratch, txn, sz, TRUE)
    IN IF ~loop.ok THEN [lk |-> taken, res |-> Err(loop.err)] \* txn dropped
       ELSE LET sc == set_stateful_compression(taken, loop.v.txn) IN
            IF ~sc.ok THEN [lk |-> taken, res |-> sc]         \* txn dropped
            ELSE [lk |-> [taken EXCEPT !.db = sc.v], res |-> Ok(Unit)]  \* commit

\* an expand whose replay test would be block_no < crest, for comparison
expand_strict(lk) ==
    LET crest == get_crest(lk) IN
    IF IsSome(crest)
    THEN LET block_no == get_cur_block_no(lk) IN
         IF ~block_no.ok THEN [lk |-> lk, res |-> block_no]
         ELSE IF block_no.v < crest.v
              THEN [lk |-> [lk EXCEPT !.scratchpad = EmptyMap], res |-> Ok(Unit)]
              ELSE do_expand(lk)
    ELSE do_expand(lk)

expand(lk) ==
    LET crest == get_crest(lk) IN
    IF IsSome(crest)
    THEN LET block_no == get_cur_block_no(lk) IN
         IF ~block_no.ok THEN [lk |-> lk, res |-> block_no]
         ELSE IF block_no.v <= crest.v
              THEN [lk |-> [lk EXCEPT !.scratchpad = EmptyMap], res |-> Ok(Unit)]
              ELSE do_expand(lk)
    ELSE do_expand(lk)

\* an is_on that would not look at the table, for comparison
is_on_any_table(lk) ==
    IF ~lk.db.phase_change.exists THEN Ok(FALSE)
    ELSE IF STATEFUL_COMPRESSION_START \notin DOMAIN lk.db.phase_change.rows THEN Ok(FALSE)
    ELSE LET block_no == get_cur_block_no(lk) IN
         IF ~block_no.ok THEN block_no
         ELSE IF block_no.v < lk.db.phase_change.rows[STATEFUL_COMPRESSION_START]
              THEN Ok(FALSE)
              ELSE Ok(TRUE)

is_on(lk) ==
    IF ~lk.db.phase_change.exists THEN Ok(FALSE)
    ELSE IF STATEFUL_COMPRESSION_START \notin DOMAIN lk.db.phase_change.rows THEN Ok(FALSE)
    ELSE LET start_no == lk.db.phase_change.rows[STATEFUL_COMPRESSION_START]
             block_no == get_cur_block_no(lk)
         IN IF ~block_no.ok THEN block_no
            ELSE IF block_no.v < start_no THEN Ok(FALSE)
            ELSE LET empty == IF ~lk.db.lookup_table.exists THEN TRUE
                              ELSE DOMAIN lk.db.lookup_table.rows = {}
                 IN Ok(~empty)

get(lk, index) ==
    IF index < START_INDEX THEN Err("index is too small")
    ELSE IF ~lk.db.lookup_table.exists THEN Err("table does not exist")
    ELSE IF index \in DOMAIN lk.db.lookup_table.rows
         THEN Ok(from_bytes_be(lk.db.lookup_table.rows[index]))
         ELSE Err("index not found")

----------------------------------------------------------------------------
(* PackConst (packing.rs): masks are sets of bit positions *)

BitRange(lo, hiExcl) == lo..(hiExcl - 1)
Shl(f, k) == {b + k : b \in f}
Shr(f, k) == {b - k : b \in {x \in f : x >= k}}
BitAnd(a, b) == a \cap b

\* comparison variant: the top mask begins one bit higher
v0_13_1_make_pack_const_narrow ==
    [top_mask |-> Shl(BitRange(0, 126), 130),
     short_top_mask |-> {},
     class_flag_mask |-> Shl(Felt(1), 128),
     nonce_mask |-> Shl(BitRange(0, 64), 64),
     short_nonce_mask |-> {},
     nonce_shift |-> 64,
     short_nonce_shift |-> 0,
     update_count_mask |-> BitRange(0, 64),
     update_count_shift |-> 0,
     short_update_count_mask |-> {},
     short_flag_mask |-> {},
     one |-> Felt(1),
     two |-> Felt(2)]

v0_13_1_make_pack_const ==
    [top_mask |-> Shl(BitRange(0, 127), 129),
     short_top_mask |-> {},
     class_flag_mask |-> Shl(Felt(1), 128),
     nonce_mask |-> Shl(BitRange(0, 64), 64),
     short_nonce_mask |-> {},
     nonce_shift |-> 64,
     short_nonce_shift |-> 0,
     update_count_mask |-> BitRange(0, 64),
     update_count_shift |-> 0,
     short_update_count_mask |-> {},
     short_flag_mask |-> {},
     one |-> Felt(1),
     two |-> Felt(2)]

\* comparison variant: the flags as the documentation has them, bit 1 for the
\* class and bit 0 for the short layout
v0_13_3_make_pack_const_documented ==
    [top_mask |-> Shl(BitRange(0, 126), 130),
     short_top_mask |-> Shl(BitRange(0, 182), 74),
     class_flag_mask |-> Felt(2),
     nonce_mask |-> Shl(BitRange(0, 64), 66),
     short_nonce_mask |-> Shl(BitRange(0, 64), 10),
     nonce_shift |-> 66,
     short_nonce_shift |-> 10,
     update_count_mask |-> Shl(BitRange(0, 64), 2),
     update_count_shift |-> 2,
     short_update_count_mask |-> Shl(Felt(255), 2),
     short_flag_mask |-> Felt(1),
     one |-> Felt(1),
     two |-> Felt(2)]

v0_13_3_make_pack_const ==
    [top_mask |-> Shl(BitRange(0, 126), 130),
     short_top_mask |-> Shl(BitRange(0, 182), 74),
     class_flag_mask |-> Felt(1),
     nonce_mask |-> Shl(BitRange(0, 64), 66),
     short_nonce_mask |-> Shl(BitRange(0, 64), 10),
     nonce_shift |-> 66,
     short_nonce_shift |-> 10,
     update_count_mask |-> Shl(BitRange(0, 64), 2),
     update_count_shift |-> 2,
     short_update_count_mask |-> Shl(Felt(255), 2),
     short_flag_mask |-> Felt(2),
     one |-> Felt(1),
     two |-> Felt(2)]

\* the parser keeps the name of the constructor that made its PackConst
PackConstOf(version) ==
    IF version = "v0_13_1" THEN v0_13_1_make_pack_const ELSE v0_13_3_make_pack_const

\* Ok(<<class_flag, nonce, update_count>>); the counts of model inputs are below 2^31
unpack_contract_update(pc_, packed) ==
    LET short_flag == ~is_zero(BitAnd(pc_.short_flag_mask, packed))
        top_mask == IF short_flag THEN pc_.short_top_mask ELSE pc_.top_mask
        top == BitAnd(top_mask, packed)
        class_flag == ~is_zero(BitAnd(pc_.class_flag_mask, packed))
        nonce_mask == IF short_flag THEN pc_.short_nonce_mask ELSE pc_.nonce_mask
        nonce_shift == IF short_flag THEN pc_.short_nonce_shift ELSE pc_.nonce_shift
        nonce == Shr(BitAnd(nonce_mask, packed), nonce_shift)
        update_count_mask ==
            IF short_flag THEN pc_.short_update_count_mask ELSE pc_.update_count_mask
        update_count == Shr(BitAnd(update_count_mask, packed), pc_.update_count_shift)
    IN IF ~is_zero(top) THEN Err("Extra high bits")
       ELSE Ok(<<class_flag, FeltNat(nonce), FeltNat(update_count)>>)

\* blob_util::parse_usize
parse_usize(value) ==
    LET u == to_u64(value) IN
    IF IsSome(u) THEN Ok(u.v) ELSE Err("Value exceeds usize::MAX")

----------------------------------------------------------------------------
(* StateUpdateParser (parser.rs).  A parser value p holds the struct's     *)
(* fields; lookup is the shared Lookup it borrows.  Every operator returns *)
(* the parser after the call and the call's Result.                        *)

Off == "Off"
One == "One"
ExpandState == "Expand"
On == "On"

DefaultRange == [min_seq_no |-> None, max_seq_no |-> None]

\* self.current.next()
HasNext(p) == p.current # <<>>
Peek(p) == Head(p.current)
Advance(p) == [p EXCEPT !.current = Tail(p.current)]
\* writeln!(self.anno_dump, ...)
Writeln(p) == [p EXCEPT !.anno_dump = p.anno_dump + 1]

Fail(p, msg) == [p |-> p, res |-> Err(msg)]

\* the element of a singleton: Only({F(x) : x \in {e}}) is F of the value of e
Only(S) == CHOOSE x \in S : TRUE

\* comparison variant: the storage update is passed on whatever the state is
StorageUpdateUntracked(p, key, value) ==
    [p |-> p, res |-> Ok([key |-> key, value |-> value])]

\* comparison variant: in state On the key is returned as it was read
StorageUpdateUnresolved(p, key, value) ==
    IF p.lookup_usage_state \in {Off, On}
    THEN [p |-> p, res |-> Ok([key |-> key, value |-> value])]
    ELSE IF p.lookup_usage_state = One
    THEN LET seq_no == to_u64(key) IN
         IF ~IsSome(seq_no) THEN Fail(p, "Casting 0x1 key")
         ELSE LET old_min == p.range.min_seq_no
                  old_max == p.range.max_seq_no
                  new_min == IF IsSome(old_min)
                             THEN (IF seq_no.v < old_min.v THEN Some(seq_no.v) ELSE old_min)
                             ELSE Some(seq_no.v)
                  new_max == IF IsSome(old_max)
                             THEN (IF seq_no.v > old_max.v THEN Some(seq_no.v) ELSE old_max)
                             ELSE Some(seq_no.v)
              IN [p |-> [p EXCEPT !.range = [min_seq_no |-> new_min, max_seq_no |-> new_max]],
                  res |-> Ok([key |-> key, value |-> value])]
    ELSE IF is_zero(key) THEN [p |-> p, res |-> Ok([key |-> key, value |-> value])]
    ELSE LET index == parse_usize(value) IN
         IF ~index.ok THEN Fail(p, "Casting 0x2 value")
         ELSE LET r == record(p.lookup, index.v, key) IN
              IF ~r.res.ok THEN Fail([p EXCEPT !.lookup = r.lk], r.res.err)
              ELSE [p |-> [p EXCEPT !.lookup = r.lk],
                    res |-> Ok([key |-> key, value |-> value])]

\* the match on lookup_usage_state of parse_storage_update
StorageUpdateByState(p, key, value) ==
    IF p.lookup_usage_state = Off THEN [p |-> p, res |-> Ok([key |-> key, value |-> value])]
    ELSE IF p.lookup_usage_state = One
    THEN LET seq_no == to_u64(key) IN
         IF ~IsSome(seq_no) THEN Fail(p, "Casting 0x1 key")
         ELSE LET old_min == p.range.min_seq_no
                  old_max == p.range.max_seq_no
                  new_min == IF IsSome(old_min)
                             THEN (IF seq_no.v < old_min.v THEN Some(seq_no.v) ELSE old_min)
                             ELSE Some(seq_no.v)
                  new_max == IF IsSome(old_max)
                             THEN (IF seq_no.v > old_max.v THEN Some(seq_no.v) ELSE old_max)
                             ELSE Some(seq_no.v)
              IN [p |-> [p EXCEPT !.range = [min_seq_no |-> new_min, max_seq_no |-> new_max]],
                  res |-> Ok([key |-> key, value |-> value])]
    ELSE IF p.lookup_usage_state = ExpandState
    THEN IF is_zero(key) THEN [p |-> p, res |-> Ok([key |-> key, value |-> value])]
         ELSE LET index == parse_usize(value) IN
              IF ~index.ok THEN Fail(p, "Casting 0x2 value")
              ELSE LET r == record(p.lookup, index.v, key) IN
                   IF ~r.res.ok THEN Fail([p EXCEPT !.lookup = r.lk], r.res.err)
                   ELSE [p |-> [p EXCEPT !.lookup = r.lk],
                         res |-> Ok([key |-> key, value |-> value])]
    ELSE \* On
         IF FeltGe(key, Felt(START_INDEX))
         THEN LET index == parse_usize(key) IN
              IF ~index.ok THEN Fail(p, "Casting compressed key")
              ELSE LET g == get(p.lookup, index.v) IN
                   IF ~g.ok THEN Fail(p, g.err)
                   ELSE [p |-> p, res |-> Ok([key |-> g.v, value |-> value])]
         ELSE [p |-> p, res |-> Ok([key |-> key, value |-> value])]

parse_storage_update(p) ==
    IF ~HasNext(p) THEN Fail(p, "Missing storage address")
    ELSE LET key == Peek(p)
             p1 == Writeln(Advance(p))
         IN IF ~HasNext(p1) THEN Fail(p1, "Missing storage value")
            ELSE StorageUpdateByState(Writeln(Advance(p1)), key, Peek(p1))

\* a collect that would stop after the first storage update, for comparison
StorageUpdatesFirstOnly(p, n, acc) ==
    IF n = 0 THEN [p |-> p, res |-> Ok(acc)]
    ELSE Only({IF ~r.res.ok THEN r ELSE [p |-> r.p, res |-> Ok(Append(acc, r.res.v))] :
               r \in {parse_storage_update(p)}})

\* (0..update_count).map(|i| self.parse_storage_update()).collect()
RECURSIVE StorageUpdates(_, _, _)
StorageUpdates(p, n, acc) ==
    IF n = 0 THEN [p |-> p, res |-> Ok(acc)]
    ELSE Only({IF ~r.res.ok THEN r
               ELSE StorageUpdates(r.p, n - 1, Append(acc, r.res.v)) :
               r \in {parse_storage_update(p)}})

\* comparison variant: in state One an address that names neither the alias
\* contract nor a compressed address leaves the state as it is
ResolveAddressKeepingOne(p, address) ==
    IF p.lookup_usage_state = Off
    THEN [p |-> IF address = PackConstOf(p.pack_const).one
                THEN [p EXCEPT !.lookup_usage_state = One] ELSE p,
          res |-> Ok(address)]
    ELSE IF p.lookup_usage_state = One
    THEN IF address = PackConstOf(p.pack_const).two
         THEN [p |-> [p EXCEPT !.lookup_usage_state = ExpandState], res |-> Ok(address)]
         ELSE LET on == is_on(p.lookup) IN
              IF ~on.ok THEN Fail(p, on.err)
              ELSE IF on.v /\ FeltGt(address, PackConstOf(p.pack_const).two)
              THEN LET index == parse_usize(address) IN
                   IF ~index.ok THEN Fail(p, "Casting compressed address")
                   ELSE LET g == get(p.lookup, index.v) IN
                        IF ~g.ok THEN Fail(p, g.err)
                        ELSE [p |-> [p EXCEPT !.lookup_usage_state = On], res |-> g]
              ELSE [p |-> p, res |-> Ok(address)]
    ELSE IF p.lookup_usage_state = ExpandState
    THEN Fail(p, "contract address encountered in unexpected lookup state Expand")
    ELSE LET index == parse_usize(address) IN
         IF ~index.ok THEN Fail(p, "Casting compressed address")
         ELSE LET g == get(p.lookup, index.v) IN
              IF ~g.ok THEN Fail(p, g.err) ELSE [p |-> p, res |-> g]

\* the match on lookup_usage_state that resolves the contract address
ResolveAddress(p, address) ==
    IF p.lookup_usage_state = Off
    THEN [p |-> IF address = PackConstOf(p.pack_const).one
                THEN [p EXCEPT !.lookup_usage_state = One] ELSE p,
          res |-> Ok(address)]
    ELSE IF p.lookup_usage_state = One
    THEN IF address = PackConstOf(p.pack_const).two
         THEN [p |-> [p EXCEPT !.lookup_usage_state = ExpandState], res |-> Ok(address)]
         ELSE LET on == is_on(p.lookup) IN
              \* is_on() returns a Result: its error ends the parse
              IF ~on.ok THEN Fail(p, on.err)
              ELSE IF on.v /\ FeltGt(address, PackConstOf(p.pack_const).two)
              THEN LET index == parse_usize(address) IN
                   IF ~index.ok THEN Fail(p, "Casting compressed address")
                   ELSE LET g == get(p.lookup, index.v) IN
                        IF ~g.ok THEN Fail(p, g.err)
                        ELSE [p |-> [p EXCEPT !.lookup_usage_state = On], res |-> g]
              ELSE [p |-> [p EXCEPT !.lookup_usage_state = Off], res |-> Ok(address)]
    ELSE IF p.lookup_usage_state = ExpandState
    THEN Fail(p, "contract address encountered in unexpected lookup state Expand")
    ELSE \* On
         LET index == parse_usize(address) IN
         IF ~index.ok THEN Fail(p, "Casting compressed address")
         ELSE LET g == get(p.lookup, index.v) IN
              IF ~g.ok THEN Fail(p, g.err) ELSE [p |-> p, res |-> g]

\* comparison variant: the scratchpad is committed but the state stays Expand
ExpandAfterAliasStaying(p) ==
    IF p.lookup_usage_state = ExpandState
    THEN LET e == expand(p.lookup) IN
         IF ~e.res.ok THEN Fail([p EXCEPT !.lookup = e.lk], e.res.err)
         ELSE [p |-> [p EXCEPT !.lookup = e.lk], res |-> Ok(Unit)]
    ELSE [p |-> p, res |-> Ok(Unit)]

\* the end of parse_contract_update: commit the scratchpad after the alias contract
ExpandAfterAlias(p) ==
    IF p.lookup_usage_state = ExpandState
    THEN LET e == expand(p.lookup) IN
         IF ~e.res.ok THEN Fail([p EXCEPT !.lookup = e.lk], e.res.err)
         ELSE [p |-> [p EXCEPT !.lookup = e.lk, !.lookup_usage_state = On], res |-> Ok(Unit)]
    ELSE [p |-> p, res |-> Ok(Unit)]

\* parse_contract_update after the address has been resolved to addr
ContractBody(p, addr) ==
    IF ~HasNext(p) THEN Fail(p, "Missing contract packed data")
    ELSE LET packed == Peek(p)
             u == unpack_contract_update(PackConstOf(p.pack_const), packed)
         IN IF ~u.ok THEN Fail(Advance(p), u.err)
            ELSE LET class_flag == u.v[1]
                     nonce == u.v[2]
                     update_count == u.v[3]
                     p1 == Writeln(Advance(p))
                 IN IF class_flag /\ ~HasNext(p1) THEN Fail(p1, "Missing new class hash")
                    ELSE LET new_class_hash == IF class_flag THEN Some(Peek(p1)) ELSE None
                             p2 == IF class_flag THEN Writeln(Advance(p1)) ELSE p1
                         IN Only({IF ~su.res.ok THEN su
                                  ELSE Only({IF ~e.res.ok THEN e
                                             ELSE [p |-> e.p,
                                                   res |-> Ok([address |-> addr,
                                                               nonce |-> nonce,
                                                               new_class_hash |-> new_class_hash,
                                                               storage_updates |-> su.res.v])] :
                                             e \in {ExpandAfterAlias(su.p)}}) :
                                  su \in {StorageUpdates(p2, update_count, <<>>)}})

\* a parse_contract_update that would test for zero after resolving, for comparison
parse_contract_update_resolving_first(p) ==
    IF ~HasNext(p) THEN Fail(p, "Missing contract address")
    ELSE LET address == Peek(p)
             p1 == Writeln(Advance(p))
         IN Only({IF ~a.res.ok THEN a
                  ELSE IF is_zero(address) THEN Fail(a.p, "Zero address")
                  ELSE ContractBody(a.p, a.res.v) :
                  a \in {ResolveAddress(p1, address)}})

parse_contract_update(p) ==
    IF ~HasNext(p) THEN Fail(p, "Missing contract address")
    ELSE LET address == Peek(p)
             p1 == Writeln(Advance(p))
         IN IF is_zero(address) THEN Fail(p1, "Zero address")
            ELSE Only({IF ~a.res.ok THEN a ELSE ContractBody(a.p, a.res.v) :
                       a \in {ResolveAddress(p1, address)}})

\* comparison variant: a count of zero is taken for a missing count
ParseCountNonzero(p, missing) ==
    IF ~HasNext(p) \/ is_zero(Peek(p)) THEN Fail(p, missing)
    ELSE LET n == parse_usize(Peek(p)) IN
         IF ~n.ok THEN Fail(Writeln(Advance(p)), n.err)
         ELSE [p |-> Writeln(Advance(p)), res |-> n]

\* the head of parse_contract_updates and of parse_class_declarations: a count
ParseCount(p, missing) ==
    IF ~HasNext(p) THEN Fail(p, missing)
    ELSE LET n == parse_usize(Peek(p)) IN
         IF ~n.ok THEN Fail(Writeln(Advance(p)), n.err)
         ELSE [p |-> Writeln(Advance(p)), res |-> n]

parse_class_declaration(p) ==
    IF ~HasNext(p) THEN Fail(p, "Missing class hash")
    ELSE LET p1 == Advance(p) IN
         IF ~HasNext(p1) THEN Fail(p1, "Missing compiled class hash")
         ELSE [p |-> Advance(p1),
               res |-> Ok([class_hash |-> Peek(p), compiled_class_hash |-> Peek(p1)])]

RECURSIVE ClassDeclarations(_, _, _)
ClassDeclarations(p, n, acc) ==
    IF n = 0 THEN [p |-> p, res |-> Ok(acc)]
    ELSE Only({IF ~r.res.ok THEN r
               ELSE ClassDeclarations(r.p, n - 1, Append(acc, r.res.v)) :
               r \in {parse_class_declaration(p)}})

\* comparison variant: no count is read and no class is declared
parse_class_declarations_absent(p) == [p |-> p, res |-> Ok(<<>>)]

parse_class_declarations(p) ==
    Only({IF ~c.res.ok THEN c ELSE ClassDeclarations(c.p, c.res.v, <<>>) :
          c \in {ParseCount(p, "Missing number of class declarations")}})

\* comparison variant: whatever is left counts as tail
ZeroTailAny(p, n) == [p |-> [p EXCEPT !.current = <<>>], res |-> Ok(n + Len(p.current))]

\* the loop of check_zero_tail from the count n: it takes elements up to the
\* first nonzero one, or all of them
ZeroTail(p, n) ==
    LET nonzero == {i \in 1..Len(p.current) : ~is_zero(p.current[i])} IN
    IF nonzero = {}
    THEN [p |-> [p EXCEPT !.current = <<>>], res |-> Ok(n + Len(p.current))]
    ELSE Fail([p EXCEPT !.current = SubSeq(p.current, SetMin(nonzero) + 1, Len(p.current))],
              "Extra tail")

check_zero_tail(p) == ZeroTail(p, 0)

----------------------------------------------------------------------------
(* The Lookup used through its public interface *)

Blocks == 1..MaxBlock
Indices == (START_INDEX - 1)..(START_INDEX + MaxOffset)
FeltA == Felt(4660)
FeltB == Felt(77)
Values == {FeltA, FeltB}

Self == Lookup(scratchpad, cur_block_no, db)

NoParser ==
    [current |-> <<>>, lookup_usage_state |-> Off, pack_const |-> "v0_13_1",
     anno_dump |-> 0, range |-> DefaultRange]
NoDecompressor ==
    [at |-> "idle", current |-> <<>>, sizes |-> <<>>, all_values |-> <<>>,
     bucket_index_per_elm |-> <<>>, data |-> <<>>, input |-> None]
NoInput == [blob |-> 0, block |-> 0, db |-> EmptyDb]

Init ==
    /\ scratchpad = EmptyMap
    /\ cur_block_no = None
    /\ db = EmptyDb
    /\ ret = [op |-> "new", res |-> Ok(Unit)]
    /\ parser = NoParser
    /\ pc = "idle"
    /\ num_contracts = 0
    /\ contract_updates = <<>>
    /\ class_declarations = <<>>
    /\ hi = 0
    /\ recorded = EmptyMap
    /\ input = NoInput
    /\ log = <<>>
    /\ decompressor = NoDecompressor

\* Lookup::new on the database file the earlier run left
NewCall ==
    /\ scratchpad' = new(db).scratchpad
    /\ cur_block_no' = new(db).cur_block_no
    /\ db' = new(db).db
    /\ ret' = [op |-> "new", res |-> Ok(Unit)]

SetBlockNoCall(b) ==
    /\ cur_block_no' = set_block_no(Self, b).cur_block_no
    /\ ret' = [op |-> "set_block_no", res |-> Ok(Unit)]
    /\ UNCHANGED <<scratchpad, db>>

\* whether an expand called now gets past the replay test to do_expand
PastCrest == ~IsSome(get_crest(Self))
             \/ (IsSome(cur_block_no) /\ cur_block_no.v > get_crest(Self).v)

Merge(f, g) == [x \in (DOMAIN f) \cup (DOMAIN g) |-> IF x \in DOMAIN g THEN g[x] ELSE f[x]]

New == NewCall /\ UNCHANGED parseVars /\ UNCHANGED histVars

SetBlockNo(b) == SetBlockNoCall(b) /\ UNCHANGED parseVars /\ UNCHANGED histVars

Record(index, value) ==
    LET r == record(Self, index, value) IN
    /\ scratchpad' = r.lk.scratchpad
    /\ ret' = [op |-> "record", res |-> r.res]
    /\ UNCHANGED <<cur_block_no, db>>
    /\ UNCHANGED parseVars /\ UNCHANGED histVars

Expand ==
    LET r == expand(Self) IN
    /\ scratchpad' = r.lk.scratchpad
    /\ db' = r.lk.db
    /\ ret' = [op |-> "expand", res |-> r.res]
    /\ recorded' = IF r.res.ok /\ PastCrest THEN Merge(recorded, scratchpad) ELSE recorded
    /\ UNCHANGED <<cur_block_no, hi, input, log>>
    /\ UNCHANGED parseVars

IsOn ==
    /\ ret' = [op |-> "is_on", res |-> is_on(Self)]
    /\ UNCHANGED lookupVars /\ UNCHANGED parseVars /\ UNCHANGED histVars

Get(index) ==
    /\ ret' = [op |-> "get", res |-> get(Self, index)]
    /\ UNCHANGED lookupVars /\ UNCHANGED parseVars /\ UNCHANGED histVars

Next ==
    \/ New
    \/ \E b \in Blocks : SetBlockNo(b)
    \/ \E index \in Indices, value \in Values : Record(index, value)
    \/ Expand
    \/ IsOn
    \/ \E index \in Indices : Get(index)

Spec == Init /\ [][Next]_vars

(* The same interface with the highest block number of the run remembered *)

NewRun ==
    /\ NewCall
    /\ hi' = 0
    /\ UNCHANGED <<recorded, input, log>>
    /\ UNCHANGED parseVars

SetBlockNoTracked(b) ==
    /\ SetBlockNoCall(b)
    /\ hi' = IF b > hi THEN b ELSE hi
    /\ UNCHANGED <<recorded, input, log>>
    /\ UNCHANGED parseVars

\* one block number more, so that a block can lie between crest and the highest
OrderBlocks == 1..(MaxBlock + 1)

NextOrder ==
    \/ NewRun
    \/ \E b \in OrderBlocks : SetBlockNoTracked(b)
    \/ \E index \in Indices : Record(index, FeltA)
    \/ Expand

SpecOrder == Init /\ [][NextOrder]_vars

----------------------------------------------------------------------------
(* A scan: the driver takes one blob after another, sets the block number  *)
(* and runs StateUpdateParser::parse over the blob's field elements.  The  *)
(* parse is followed step by step; an error ends the run.                  *)

\* the packed word of a contract update as v0_13_1 lays it out
Pack1(class_flag, nonce, update_count) ==
    (IF class_flag THEN Shl(Felt(1), 128) ELSE {})
        \cup Shl(Felt(nonce), 64) \cup Felt(update_count)

\* the short packed word of v0_13_3
Pack3Short(class_flag, nonce, update_count) ==
    (IF class_flag THEN Felt(1) ELSE {}) \cup Felt(2)
        \cup Shl(Felt(nonce), 10) \cup Shl(Felt(update_count), 2)

\* contract 1 with storage {100: 42}, then the alias contract 2 with the
\* counter, A -> 128 and B -> 129; no class declaration, one zero of tail
IntroBlob ==
    [version |-> "v0_13_1",
     seq |-> <<Felt(2), Felt(1), Pack1(FALSE, 0, 1), Felt(100), Felt(42),
               Felt(2), Pack1(FALSE, 0, 3), Felt(0), Felt(130),
               FeltA, Felt(128), FeltB, Felt(129), Felt(0), Felt(0)>>]

\* contract 1, then the compressed address 128 with the compressed key 129
LaterBlob ==
    [version |-> "v0_13_1",
     seq |-> <<Felt(2), Felt(1), Pack1(FALSE, 0, 0),
               Felt(128), Pack1(FALSE, 1, 1), Felt(129), Felt(7), Felt(0)>>]

\* contract 1, contract 5, contract 1 again and only then the alias contract
RevisitBlob ==
    [version |-> "v0_13_1",
     seq |-> <<Felt(4), Felt(1), Pack1(FALSE, 0, 0), Felt(5), Pack1(FALSE, 0, 0),
               Felt(1), Pack1(FALSE, 0, 0),
               Felt(2), Pack1(FALSE, 0, 1), FeltA, Felt(128), Felt(0)>>]

\* no stateful compression: one contract with a class hash, one declaration
PlainBlob ==
    [version |-> "v0_13_1",
     seq |-> <<Felt(1), Felt(5), Pack1(TRUE, 1, 1), Felt(9), Felt(3), Felt(4),
               Felt(1), Felt(8), Felt(9), Felt(0), Felt(0)>>]

\* the alias contract with nothing but its counter
CounterOnlyBlob ==
    [version |-> "v0_13_1",
     seq |-> <<Felt(2), Felt(1), Pack1(FALSE, 0, 0),
               Felt(2), Pack1(FALSE, 0, 1), Felt(0), Felt(128), Felt(0)>>]

\* the sequence ends inside the alias contract's storage updates
TruncatedBlob ==
    [version |-> "v0_13_1",
     seq |-> <<Felt(2), Felt(1), Pack1(FALSE, 0, 0),
               Felt(2), Pack1(FALSE, 0, 2), FeltA, Felt(128)>>]

\* the alias contract records B -> 129 alone
GapBlob ==
    [version |-> "v0_13_1",
     seq |-> <<Felt(2), Felt(1), Pack1(FALSE, 0, 0),
               Felt(2), Pack1(FALSE, 0, 1), FeltB, Felt(129), Felt(0)>>]

\* a v0_13_3 blob with short packed words: the alias contract records A -> 128
ShortBlob ==
    [version |-> "v0_13_3",
     seq |-> <<Felt(2), Felt(1), Pack3Short(FALSE, 0, 0),
               Felt(2), Pack3Short(FALSE, 3, 1), FeltA, Felt(128), Felt(0)>>]

\* three contracts announced: contract 1, the alias contract, and address zero
ZeroAddressBlob ==
    [version |-> "v0_13_1",
     seq |-> <<Felt(3), Felt(1), Pack1(FALSE, 0, 0),
               Felt(2), Pack1(FALSE, 0, 1), FeltA, Felt(128),
               Felt(0), Pack1(FALSE, 0, 0), Felt(0)>>]

\* the sequence 1, pack(false, 0, 0), 0
SingleContractBlob ==
    [version |-> "v0_13_1", seq |-> <<Felt(1), Pack1(FALSE, 0, 0), Felt(0)>>]

\* one contract announced: contract 1 with pack(false, 0, 0); no class declaration
CountedSingleBlob ==
    [version |-> "v0_13_1", seq |-> <<Felt(1), Felt(1), Pack1(FALSE, 0, 0), Felt(0)>>]

\* the sequence of an all-zero blob
FIELD_ELEMENTS_PER_BLOB == 4096
AllZeroBlob ==
    [version |-> "v0_13_1", seq |-> [i \in 1..FIELD_ELEMENTS_PER_BLOB |-> Felt(0)]]

Blobs == <<IntroBlob, LaterBlob, RevisitBlob, PlainBlob, CounterOnlyBlob,
           TruncatedBlob, GapBlob, ShortBlob, ZeroAddressBlob, AllZeroBlob,
           SingleContractBlob, CountedSingleBlob>>

\* blobs of a later block, once IntroBlob has put FeltA at 128 and FeltB at
\* 129: contract 1, the compressed address 128 with a low key, a compressed
\* key and a value of 200, and the compressed address 129
OnBlob ==
    [version |-> "v0_13_1",
     seq |-> <<Felt(3), Felt(1), Pack1(FALSE, 0, 0),
               Felt(128), Pack1(FALSE, 0, 2), Felt(5), Felt(7), Felt(129), Felt(200),
               Felt(129), Pack1(FALSE, 0, 0), Felt(0)>>]

\* contract 1, the compressed address 128, and then an address that the
\* table cannot resolve: one below 128, one beyond the table, one beyond usize
OnBadAddressBlob(address) ==
    [version |-> "v0_13_1",
     seq |-> <<Felt(3), Felt(1), Pack1(FALSE, 0, 0), Felt(128), Pack1(FALSE, 0, 0),
               address, Pack1(FALSE, 0, 0), Felt(0)>>]

\* contract 1 and the compressed address 128 with a key beyond the table
OnBadKeyBlob ==
    [version |-> "v0_13_1",
     seq |-> <<Felt(2), Felt(1), Pack1(FALSE, 0, 0),
               Felt(128), Pack1(FALSE, 0, 1), Felt(300), Felt(1), Felt(0)>>]

\* contract 1 three times
OneOneBlob ==
    [version |-> "v0_13_1",
     seq |-> <<Felt(3), Felt(1), Pack1(FALSE, 0, 0), Felt(1), Pack1(FALSE, 0, 0),
               Felt(1), Pack1(FALSE, 0, 0), Felt(0)>>]

OnBlobs == <<OnBlob, OnBadAddressBlob(Felt(5)), OnBadAddressBlob(Felt(300)),
             OnBadAddressBlob({70}), OnBadKeyBlob, OneOneBlob>>

\* contract 1 and the alias contract with FeltA -> 128 and one more storage
\* update: an index recorded twice, an index below 128, a value beyond
\* usize, and the counter read after an entry
AliasBlob(key, value) ==
    [version |-> "v0_13_1",
     seq |-> <<Felt(2), Felt(1), Pack1(FALSE, 0, 0),
               Felt(2), Pack1(FALSE, 0, 2), FeltA, Felt(128), key, value, Felt(0)>>]

AliasBlobs == <<AliasBlob(FeltB, Felt(128)), AliasBlob(FeltB, Felt(127)),
                AliasBlob(FeltB, {70}), AliasBlob(Felt(0), Felt(129))>>

\* contract 1 with the keys k1 and k2, contract 5 with the key 3, and
\* contract 1 once more, read in state One again, with the key k3
SeqBlob(k1, k2, k3) ==
    [version |-> "v0_13_1",
     seq |-> <<Felt(3), Felt(1), Pack1(FALSE, 0, 2), k1, Felt(42), k2, Felt(43),
               Felt(5), Pack1(FALSE, 0, 1), Felt(3), Felt(44),
               Felt(1), Pack1(FALSE, 0, 1), k3, Felt(45), Felt(0), Felt(0)>>]

\* keys going down, keys going up, and a key beyond u64
SeqBlobs == <<SeqBlob(Felt(100), Felt(50), Felt(70)),
              SeqBlob(Felt(50), Felt(100), Felt(200)),
              SeqBlob(Felt(100), {64}, Felt(1))>>

AllBlobs == Blobs \o OnBlobs \o AliasBlobs \o SeqBlobs

\* the parser borrowing the shared Lookup, and the parser's own fields again
Borrow(p) ==
    [current |-> p.current, lookup_usage_state |-> p.lookup_usage_state,
     pack_const |-> p.pack_const, anno_dump |-> p.anno_dump, range |-> p.range,
     lookup |-> Self]
Fields(p) ==
    [current |-> p.current, lookup_usage_state |-> p.lookup_usage_state,
     pack_const |-> p.pack_const, anno_dump |-> p.anno_dump, range |-> p.range]

\* the driver hands the blob's block number to the Lookup ahead of the parse
LookupSetBlockNo(b) == SetBlockNoCall(b)

\* Dumper::set_block_no: a block number below the last one ends the run
DumperSetBlockNo(b) == IF hi > 0 /\ b < hi THEN Err("block followed by") ELSE Ok(Unit)

AddressesOf(updates) == [i \in 1..Len(updates) |-> updates[i].address]

\* parse returns res; the driver passes an error on and the run ends
Return(res, lk) ==
    /\ ret' = [op |-> "parse", res |-> res]
    /\ pc' = IF res.ok THEN "idle" ELSE "aborted"
    /\ parser' = NoParser
    /\ num_contracts' = 0
    /\ contract_updates' = <<>>
    /\ class_declarations' = <<>>
    /\ log' = Append(log, [blob |-> input.blob, block |-> input.block,
                           ok |-> res.ok, before |-> input.db, after |-> lk.db,
                           res |-> res,
                           addresses |-> IF res.ok
                                         THEN AddressesOf(res.v.contract_updates)
                                         ELSE <<>>])

\* a new run of the program over the database file of the earlier runs
Restart ==
    /\ pc \in {"idle", "aborted"}
    /\ NewCall
    /\ pc' = "idle"
    /\ hi' = 0
    /\ UNCHANGED <<parser, num_contracts, contract_updates, class_declarations>>
    /\ UNCHANGED <<recorded, input, log>>
    /\ UNCHANGED decompressor

\* the next blob of the scan, of block b: set the block number, start the
\* parse; the scan takes at most limit blobs
Scan(b, k, limit) ==
    /\ pc = "idle"
    /\ Len(log) < limit
    /\ IF ~DumperSetBlockNo(b).ok
       THEN /\ ret' = [op |-> "scan", res |-> DumperSetBlockNo(b)]
            /\ pc' = "aborted"
            /\ UNCHANGED lookupVars
            /\ UNCHANGED <<parser, num_contracts, contract_updates, class_declarations>>
            /\ UNCHANGED histVars
       ELSE /\ LookupSetBlockNo(b)
            /\ hi' = b
            /\ parser' = [NoParser EXCEPT !.current = AllBlobs[k].seq,
                                          !.pack_const = AllBlobs[k].version]
            /\ pc' = "contract_updates"
            /\ input' = [blob |-> k, block |-> b, db |-> db]
            /\ UNCHANGED <<num_contracts, contract_updates, class_declarations>>
            /\ UNCHANGED <<recorded, log>>
    /\ UNCHANGED decompressor

\* parse_contract_updates up to the count
ParseContractUpdates ==
    /\ pc = "contract_updates"
    /\ LET c == ParseCount(Borrow(parser), "Missing number of contract updates") IN
       IF c.res.ok
       THEN /\ parser' = Fields(c.p)
            /\ num_contracts' = c.res.v
            /\ pc' = "contract_update"
            /\ UNCHANGED <<ret, contract_updates, class_declarations, log>>
       ELSE Return(c.res, Self)
    /\ UNCHANGED lookupVars
    /\ UNCHANGED <<hi, recorded, input>>
    /\ UNCHANGED decompressor

\* one parse_contract_update of the map over 0..num_contracts
ParseContractUpdate ==
    /\ pc = "contract_update"
    /\ Len(contract_updates) < num_contracts
    /\ LET r == parse_contract_update(Borrow(parser)) IN
       /\ scratchpad' = r.p.lookup.scratchpad
       /\ db' = r.p.lookup.db
       /\ IF r.res.ok
          THEN /\ parser' = Fields(r.p)
               /\ contract_updates' = Append(contract_updates, r.res.v)
               /\ UNCHANGED <<ret, pc, num_contracts, class_declarations, log>>
          ELSE Return(r.res, r.p.lookup)
    /\ UNCHANGED <<cur_block_no, hi, recorded, input>>
    /\ UNCHANGED decompressor

\* parse_class_declarations, once the contract updates are collected
ParseClassDeclarations ==
    /\ pc = "contract_update"
    /\ Len(contract_updates) = num_contracts
    /\ LET r == parse_class_declarations(Borrow(parser)) IN
       IF r.res.ok
       THEN /\ parser' = Fields(r.p)
            /\ class_declarations' = r.res.v
            /\ pc' = "zero_tail"
            /\ UNCHANGED <<ret, num_contracts, contract_updates, log>>
       ELSE Return(r.res, Self)
    /\ UNCHANGED lookupVars
    /\ UNCHANGED <<hi, recorded, input>>
    /\ UNCHANGED decompressor

\* check_zero_tail and the StateDiff parse returns
CheckZeroTail ==
    /\ pc = "zero_tail"
    /\ LET r == check_zero_tail(Borrow(parser)) IN
       IF r.res.ok
       THEN Return(Ok([contract_updates |-> contract_updates,
                       class_declarations |-> class_declarations,
                       range |-> r.p.range,
                       tail_size |-> r.res.v]), Self)
       ELSE Return(r.res, Self)
    /\ UNCHANGED lookupVars
    /\ UNCHANGED <<hi, recorded, input>>
    /\ UNCHANGED decompressor

ScanBlob(b, k) == Scan(b, k, MaxParses)

NextParse ==
    \/ Restart
    \/ \E b \in Blocks, k \in 1..Len(Blobs) : ScanBlob(b, k)
    \/ ParseContractUpdates
    \/ ParseContractUpdate
    \/ ParseClassDeclarations
    \/ CheckZeroTail

SpecParse == Init /\ [][NextParse]_vars

----------------------------------------------------------------------------
(* The bucket decompressor (decomp.rs) *)

HEADER_ELM_N_BITS == 20
MAX_N_BITS_PER_FELT == 251
TOTAL_N_BUCKETS == 7

\* a panic: the thread unwinds and the program ends with the message
Panic(msg) == [ok |-> FALSE, err |-> msg, panic |-> TRUE]

\* BigUint division by a machine integer d > 0, byte by byte from the top byte k
RECURSIVE LongDiv(_, _, _, _, _)
LongDiv(f, d, k, rem, quot) ==
    IF k < 0 THEN [quot |-> quot, rem |-> rem]
    ELSE LongDiv(f, d, k - 1, (256 * rem + ByteAt(f, k)) % d,
                 quot \cup Shl(Felt((256 * rem + ByteAt(f, k)) \div d), 8 * k))

\* packed / elm_bound and packed % elm_bound; a bound that is no power of two
\* is a machine integer below 2^23 in the model
DivRem(packed, elm_bound) ==
    IF Cardinality(elm_bound) = 1
    THEN LET k == SetMax(elm_bound) IN
         [quot |-> Shr(packed, k), rem |-> {b \in packed : b < k}]
    ELSE LET r == LongDiv(packed, FeltNat(elm_bound),
                          IF packed = {} THEN -1 ELSE SetMax(packed) \div 8, 0, {})
         IN [quot |-> r.quot, rem |-> Felt(r.rem)]

\* the while loop of unpack_felt
RECURSIVE UnpackLoop(_, _, _, _)
UnpackLoop(packed, elm_bound, n, out) ==
    IF n = 0 THEN Ok([elements |-> out, rest |-> packed])
    ELSE UnpackLoop(DivRem(packed, elm_bound).quot, elm_bound, n - 1,
                    Append(out, DivRem(packed, elm_bound).rem))

unpack_felt(packed, elm_bound, n_elms) ==
    IF n_elms = 0
    THEN (IF is_zero(packed) THEN Ok([elements |-> <<>>, rest |-> {}])
          ELSE Err("unpacking leaves set bits"))
    ELSE IF is_zero(elm_bound) THEN Panic("attempt to divide by zero")
    ELSE UnpackLoop(packed, elm_bound, n_elms, <<>>)

\* comparison variant: the version is looked at before the rest
unpack_header_version_first(packed) ==
    LET u == unpack_felt(packed, Shl(Felt(1), HEADER_ELM_N_BITS), 9) IN
    IF ~u.ok THEN u
    ELSE IF ~is_zero(u.v.elements[1]) THEN Err("invalid compression version")
    ELSE IF ~is_zero(u.v.rest) THEN Err("high header bits set")
    ELSE Ok([i \in 1..8 |-> parse_usize(u.v.elements[i + 1]).v])

\* Ok(sizes): sizes[i] of the source is sizes[i + 1] here
unpack_header(packed) ==
    LET u == unpack_felt(packed, Shl(Felt(1), HEADER_ELM_N_BITS), 9) IN
    IF ~u.ok THEN u
    ELSE IF ~is_zero(u.v.rest) THEN Err("high header bits set")
    ELSE IF ~is_zero(u.v.elements[1]) THEN Err("invalid compression version")
    ELSE Ok([i \in 1..8 |-> parse_usize(u.v.elements[i + 1]).v])

powers == <<252, 125, 83, 62, 31, 15>>
make_bucket_bounds == [i \in 1..6 |-> Shl(Felt(1), powers[i])]
pack_counts == <<2, 3, 4, 8, 16>>

\* usize::BITS - n.leading_zeros()
RECURSIVE BitLen(_)
BitLen(n) == IF n = 0 THEN 0 ELSE 1 + BitLen(n \div 2)

\* comparison variant: the bits of the bound itself, not of the bound less one
get_n_elms_per_felt_of_bound(elm_bound) ==
    IF elm_bound < 2 THEN MAX_N_BITS_PER_FELT
    ELSE MAX_N_BITS_PER_FELT \div BitLen(elm_bound)

get_n_elms_per_felt(elm_bound) ==
    IF elm_bound < 2 THEN MAX_N_BITS_PER_FELT
    ELSE MAX_N_BITS_PER_FELT \div BitLen(elm_bound - 1)

\* indices are below the number of unique values: src_and_dst[idx] exists
extend_with_repeats(src_and_dst, indices) ==
    src_and_dst \o [i \in 1..Len(indices) |-> src_and_dst[FeltNat(indices[i]) + 1]]

\* comparison variant: every bucket starts at the front
get_bucket_offsets_zero(bucket_lengths) == [i \in 1..Len(bucket_lengths) |-> 0]

RECURSIVE SumTo(_, _)
SumTo(lengths, k) == IF k = 0 THEN 0 ELSE lengths[k] + SumTo(lengths, k - 1)
get_bucket_offsets(bucket_lengths) ==
    [i \in 1..Len(bucket_lengths) |-> SumTo(bucket_lengths, i - 1)]

\* the Decompressor's fields of the record d
DecompFail(d, res) == [d |-> d, res |-> res]

unpack_felts_given_n_packed_felts(d, elm_bound, n_elms_per_felt, decompressed_dst) ==
    IF d.current = <<>>
    THEN DecompFail(d, Err("iterator finished before going through sizes"))
    ELSE Only({IF ~u.ok THEN DecompFail([d EXCEPT !.current = Tail(d.current)], u)
               ELSE IF ~is_zero(u.v.rest)
               THEN DecompFail([d EXCEPT !.current = Tail(d.current)], Err("high bits set"))
               ELSE [d |-> [d EXCEPT !.current = Tail(d.current)],
                     res |-> Ok(decompressed_dst \o u.v.elements)] :
               u \in {unpack_felt(Head(d.current), elm_bound, n_elms_per_felt)}})

\* the loop over the full felts of unpack_felts
RECURSIVE FullFelts(_, _, _, _, _)
FullFelts(d, k, elm_bound, n_elms_per_felt, dst) ==
    IF k = 0 THEN [d |-> d, res |-> Ok(dst)]
    ELSE Only({IF ~r.res.ok THEN r
               ELSE FullFelts(r.d, k - 1, elm_bound, n_elms_per_felt, r.res.v) :
               r \in {unpack_felts_given_n_packed_felts(d, elm_bound, n_elms_per_felt, dst)}})

unpack_felts(d, n_elms, elm_bound, n_elms_per_felt, decompressed_dst) ==
    Only({IF ~f.res.ok THEN f
          ELSE IF n_elms % n_elms_per_felt > 0
          THEN unpack_felts_given_n_packed_felts(f.d, elm_bound,
                                                 n_elms % n_elms_per_felt, f.res.v)
          ELSE f :
          f \in {FullFelts(d, n_elms \div n_elms_per_felt, elm_bound,
                           n_elms_per_felt, decompressed_dst)}})

copy_largest_bucket(d, decompressed_dst) ==
    LET n_elms == d.sizes[2] IN
    IF Len(d.current) < n_elms
    THEN DecompFail([d EXCEPT !.current = <<>>], Err("large element not found"))
    ELSE [d |-> [d EXCEPT !.current = SubSeq(d.current, n_elms + 1, Len(d.current))],
          res |-> Ok(decompressed_dst \o SubSeq(d.current, 1, n_elms))]

\* the loop for i in 0..5 of unpack_unique_values
RECURSIVE UniqueBuckets(_, _, _)
UniqueBuckets(d, i, dst) ==
    IF i = 5 THEN [d |-> d, res |-> Ok(dst)]
    ELSE Only({IF ~r.res.ok THEN r ELSE UniqueBuckets(r.d, i + 1, r.res.v) :
               r \in {unpack_felts(d, d.sizes[i + 3], make_bucket_bounds[i + 2],
                                   pack_counts[i + 1], dst)}})

unpack_unique_values(d, decompressed_dst) ==
    Only({IF ~c.res.ok THEN c ELSE UniqueBuckets(c.d, 0, c.res.v) :
          c \in {copy_largest_bucket(d, decompressed_dst)}})

unpack_repeating_value_pointers(d, n_unique_values) ==
    unpack_felts(d, d.sizes[8], Felt(n_unique_values),
                 get_n_elms_per_felt(n_unique_values), <<>>)

unpack_repeating_values(d, src_and_dst) ==
    Only({IF ~r.res.ok THEN r
          ELSE [d |-> r.d, res |-> Ok(extend_with_repeats(src_and_dst, r.res.v))] :
          r \in {unpack_repeating_value_pointers(d, Len(src_and_dst))}})

unpack_bucket_index_per_elm(d) ==
    unpack_felts(d, d.sizes[1], Felt(TOTAL_N_BUCKETS), 83, <<>>)

\* the loop of reconstruct_data: all_values[offset] panics past the end
RECURSIVE ReconstructLoop(_, _, _, _, _)
ReconstructLoop(all_values, bucket_index_per_elm, k, offset_trackers, data) ==
    IF k > Len(bucket_index_per_elm) THEN Ok(data)
    ELSE LET idx == FeltNat(bucket_index_per_elm[k]) + 1
             offset == offset_trackers[idx]
         IN IF offset >= Len(all_values) THEN Panic("index out of bounds")
            ELSE ReconstructLoop(all_values, bucket_index_per_elm, k + 1,
                                 [offset_trackers EXCEPT ![idx] = offset + 1],
                                 Append(data, all_values[offset + 1]))

reconstruct_data(d, all_values, bucket_index_per_elm) ==
    ReconstructLoop(all_values, bucket_index_per_elm, 1,
                    get_bucket_offsets(SubSeq(d.sizes, 2, 8)), <<>>)

\* Decompressor::check_zero_tail, the same loop as the parser's
decomp_check_zero_tail(d) ==
    LET r == ZeroTail(d, 0) IN [d |-> r.p, res |-> r.res]

----------------------------------------------------------------------------
(* The reference compressor, as the decompressor's procedure describes its output *)

\* the narrowest bucket that holds the value: 5 below 2^15, ..., 1 below 2^125, else 0
BucketOf(v) ==
    IF v = {} THEN 5
    ELSE IF SetMax(v) < 15 THEN 5
    ELSE IF SetMax(v) < 31 THEN 4
    ELSE IF SetMax(v) < 62 THEN 3
    ELSE IF SetMax(v) < 83 THEN 2
    ELSE IF SetMax(v) < 125 THEN 1
    ELSE 0

FirstAt(flat, i) == \A j \in 1..(i - 1) : flat[j] # flat[i]

\* the elements of flat at the positions of S, in order
Pick(flat, S) == [k \in 1..Cardinality(S) |-> flat[Ascending(S)[k]]]

\* the unique values of bucket b in the order of their first occurrence
UniqueOf(flat, b) ==
    Pick(flat, {i \in 1..Len(flat) : FirstAt(flat, i) /\ BucketOf(flat[i]) = b})

UniquePool(flat) ==
    UniqueOf(flat, 0) \o UniqueOf(flat, 1) \o UniqueOf(flat, 2)
        \o UniqueOf(flat, 3) \o UniqueOf(flat, 4) \o UniqueOf(flat, 5)

\* the place of the value v in the pool, counted from 0
PointerOf(pool, v) == (CHOOSE k \in 1..Len(pool) : pool[k] = v) - 1

\* the pointers of the repeated occurrences, in order
RepeatPointers(flat) ==
    LET rep == Pick(flat, {i \in 1..Len(flat) : ~FirstAt(flat, i)}) IN
    [k \in 1..Len(rep) |-> PointerOf(UniquePool(flat), rep[k])]

\* the bucket index of every position: 6 names the repeated values
BucketIndices(flat) ==
    [i \in 1..Len(flat) |-> IF FirstAt(flat, i) THEN BucketOf(flat[i]) ELSE 6]

\* the sequence cut into pieces of n elements, the last one possibly shorter
Chunks(s, n) ==
    [k \in 1..((Len(s) + n - 1) \div n) |->
        SubSeq(s, (k - 1) * n + 1, IF k * n < Len(s) THEN k * n ELSE Len(s))]

\* little-end digits of width bits each in one field element
PackBits(values, width) ==
    UNION {Shl(values[i], width * (i - 1)) : i \in 1..Len(values)}

\* little-end digits in the base given, of a value below 2^31
RECURSIVE DigitsValue(_, _)
DigitsValue(digits, base) ==
    IF digits = <<>> THEN 0 ELSE Head(digits) + base * DigitsValue(Tail(digits), base)

PackedBucket(flat, b) ==
    LET c == Chunks(UniqueOf(flat, b), pack_counts[b]) IN
    [k \in 1..Len(c) |-> PackBits(c[k], powers[b + 1])]

PackedDigits(digits, base, per_felt) ==
    LET c == Chunks(digits, per_felt) IN
    [k \in 1..Len(c) |-> Felt(DigitsValue(c[k], base))]

Header(version, sizes) ==
    PackBits(<<Felt(version)>> \o [i \in 1..8 |-> Felt(sizes[i])], HEADER_ELM_N_BITS)

compress(flat) ==
    <<Header(0, <<Len(flat), Len(UniqueOf(flat, 0)), Len(UniqueOf(flat, 1)),
                  Len(UniqueOf(flat, 2)), Len(UniqueOf(flat, 3)),
                  Len(UniqueOf(flat, 4)), Len(UniqueOf(flat, 5)),
                  Len(RepeatPointers(flat))>>)>>
        \o UniqueOf(flat, 0)
        \o PackedBucket(flat, 1) \o PackedBucket(flat, 2) \o PackedBucket(flat, 3)
        \o PackedBucket(flat, 4) \o PackedBucket(flat, 5)
        \o PackedDigits(RepeatPointers(flat), Len(UniquePool(flat)),
                        get_n_elms_per_felt(Len(UniquePool(flat))))
        \o PackedDigits(BucketIndices(flat), TOTAL_N_BUCKETS, 83)

----------------------------------------------------------------------------
(* Decompressor::decompress, step by step, over compressed and damaged sequences *)

\* flat sequences have up to MaxFlat elements, followed by up to MaxTail zeros
MaxFlat == 3
MaxTail == 2

\* one value of bucket 0, one of bucket 4, one of bucket 5, and zero
FlatValues == {Shl(Felt(3), 130), Shl(Felt(1), 20), Felt(5), Felt(0)}
FlatSeqs == UNION {[1..n -> FlatValues] : n \in 0..MaxFlat}
Zeros(n) == [i \in 1..n |-> Felt(0)]

\* the bits flipped in the header: the lowest of version, of the total length,
\* of the length of bucket 0 and of bucket 5, of the number of repeating values,
\* the first bit past the nine digits, and that one together with the version's
HeaderFlips == {{0}, {20}, {40}, {140}, {160}, {180}, {0, 180}}
Flip(f, bits) == (f \ bits) \cup (bits \ f)

\* version 0, total 1, bucket 0 of one element, nothing else
MinimalHeader == Header(0, <<1, 1, 0, 0, 0, 0, 0, 0>>)

\* an input of decompress: the sequence, and what it was made of
Compressed ==
    {[kind |-> "compressed", flat |-> flat, tail |-> t, flips |-> {},
      seq |-> compress(flat) \o Zeros(t)] : flat \in FlatSeqs, t \in 0..MaxTail}
Minimal ==
    {[kind |-> "minimal", flat |-> <<e>>, tail |-> t, flips |-> {},
      seq |-> <<MinimalHeader, e, Felt(0)>> \o Zeros(t)] : e \in FlatValues, t \in 0..MaxTail}
Damaged ==
    {[kind |-> "header", flat |-> flat, tail |-> 0, flips |-> bits,
      seq |-> <<Flip(Head(compress(flat)), bits)>> \o Tail(compress(flat))] :
        flat \in FlatSeqs, bits \in HeaderFlips}
    \cup {[kind |-> "truncated", flat |-> flat, tail |-> 0, flips |-> {},
           seq |-> SubSeq(compress(flat), 1, Len(compress(flat)) - 1)] : flat \in FlatSeqs}
    \cup {[kind |-> "high_bit", flat |-> flat, tail |-> 0, flips |-> {},
           seq |-> SubSeq(compress(flat), 1, Len(compress(flat)) - 1)
                   \o <<compress(flat)[Len(compress(flat))] \cup {250}>>] :
             flat \in FlatSeqs}
    \cup {[kind |-> "nonzero_tail", flat |-> flat, tail |-> t, flips |-> {},
           seq |-> compress(flat) \o Zeros(t) \o <<Felt(7), Felt(0)>>] :
             flat \in FlatSeqs, t \in 0..MaxTail}
\* headers that are well-formed but at odds with what follows: a repeated
\* value and no unique value to point to; and one value in bucket 0 with a
\* bucket index that names another bucket
Inconsistent ==
    {[kind |-> "no_pool", flat |-> <<>>, tail |-> t, flips |-> {},
      seq |-> <<Header(0, <<1, 0, 0, 0, 0, 0, 0, 1>>), Felt(0), Felt(0)>> \o Zeros(t)] :
        t \in 0..MaxTail}
    \cup {[kind |-> "overdrawn", flat |-> <<e>>, tail |-> t, flips |-> {},
           seq |-> <<MinimalHeader, e, Felt(k)>> \o Zeros(t)] :
             e \in FlatValues, k \in 1..6, t \in 0..MaxTail}
\* one value each in the buckets 0, 4 and 5, encoded by the compressor, with
\* another stream of bucket indices in place of its own 0, 4, 5: the same
\* indices in another order, and streams that name a bucket twice
ThreeBuckets == <<Shl(Felt(3), 130), Shl(Felt(1), 20), Felt(5)>>
Misdirected ==
    {[kind |-> "misdirected", flat |-> ThreeBuckets, tail |-> 0, flips |-> {},
      seq |-> SubSeq(compress(ThreeBuckets), 1, Len(compress(ThreeBuckets)) - 1)
              \o PackedDigits(stream, TOTAL_N_BUCKETS, 83)] :
        stream \in {<<4, 0, 5>>, <<0, 0, 4>>, <<0, 4, 4>>}}
DecompressInputs == Compressed \cup Minimal \cup Damaged \cup Inconsistent \cup Misdirected

\* the fields current and sizes of the Decompressor
DecompSelf == [current |-> decompressor.current, sizes |-> decompressor.sizes]

\* decompress returns res: an error is passed on to the caller
DecompReturn(res, inp) ==
    /\ ret' = [op |-> "decompress", res |-> res]
    /\ decompressor' = [NoDecompressor EXCEPT !.input = inp]

\* decompress up to the Decompressor it makes: every decompress starts afresh
Decompress(i) ==
    /\ decompressor = NoDecompressor
    /\ IF i.seq = <<>> THEN DecompReturn(Err("nothing to decompress"), Some(i))
       ELSE LET sizes == unpack_header(Head(i.seq)) IN
            IF ~sizes.ok THEN DecompReturn(sizes, Some(i))
            ELSE /\ decompressor' = [NoDecompressor EXCEPT !.at = "unique_values",
                                                           !.current = Tail(i.seq),
                                                           !.sizes = sizes.v,
                                                           !.input = Some(i)]
                 /\ UNCHANGED ret
    /\ UNCHANGED lookupVars /\ UNCHANGED histVars
    /\ UNCHANGED <<parser, pc, num_contracts, contract_updates, class_declarations>>

\* comparison variant: no length is ever found wrong
LengthNeverMismatch(uncompressed_len, n_unique_values, n_repeating_values) == FALSE

\* if uncompressed_len != (n_unique_values + n_repeating_values)
LengthMismatch(uncompressed_len, n_unique_values, n_repeating_values) ==
    uncompressed_len # n_unique_values + n_repeating_values

\* unpack_unique_values and the test of the uncompressed length
UnpackUniqueValues ==
    /\ decompressor.at = "unique_values"
    /\ LET r == unpack_unique_values(DecompSelf, <<>>) IN
       IF ~r.res.ok THEN DecompReturn(r.res, decompressor.input)
       ELSE IF LengthMismatch(decompressor.sizes[1], Len(r.res.v), decompressor.sizes[8])
       THEN DecompReturn(Err("uncompressed length"), decompressor.input)
       ELSE /\ decompressor' = [decompressor EXCEPT !.at = "repeating_values",
                                                    !.current = r.d.current,
                                                    !.all_values = r.res.v]
            /\ UNCHANGED ret
    /\ UNCHANGED lookupVars /\ UNCHANGED histVars
    /\ UNCHANGED <<parser, pc, num_contracts, contract_updates, class_declarations>>

UnpackRepeatingValues ==
    /\ decompressor.at = "repeating_values"
    /\ LET r == unpack_repeating_values(DecompSelf, decompressor.all_values) IN
       IF ~r.res.ok THEN DecompReturn(r.res, decompressor.input)
       ELSE /\ decompressor' = [decompressor EXCEPT !.at = "bucket_index",
                                                    !.current = r.d.current,
                                                    !.all_values = r.res.v]
            /\ UNCHANGED ret
    /\ UNCHANGED lookupVars /\ UNCHANGED histVars
    /\ UNCHANGED <<parser, pc, num_contracts, contract_updates, class_declarations>>

UnpackBucketIndexPerElm ==
    /\ decompressor.at = "bucket_index"
    /\ LET r == unpack_bucket_index_per_elm(DecompSelf) IN
       IF ~r.res.ok THEN DecompReturn(r.res, decompressor.input)
       ELSE /\ decompressor' = [decompressor EXCEPT !.at = "reconstruct",
                                                    !.current = r.d.current,
                                                    !.bucket_index_per_elm = r.res.v]
            /\ UNCHANGED ret
    /\ UNCHANGED lookupVars /\ UNCHANGED histVars
    /\ UNCHANGED <<parser, pc, num_contracts, contract_updates, class_declarations>>

ReconstructData ==
    /\ decompressor.at = "reconstruct"
    /\ LET data == reconstruct_data(DecompSelf, decompressor.all_values,
                                    decompressor.bucket_index_per_elm) IN
       IF ~data.ok THEN DecompReturn(data, decompressor.input)
       ELSE /\ decompressor' = [decompressor EXCEPT !.at = "zero_tail", !.data = data.v]
            /\ UNCHANGED ret
    /\ UNCHANGED lookupVars /\ UNCHANGED histVars
    /\ UNCHANGED <<parser, pc, num_contracts, contract_updates, class_declarations>>

\* check_zero_tail and the pair decompress returns
DecompCheckZeroTail ==
    /\ decompressor.at = "zero_tail"
    /\ LET n == decomp_check_zero_tail(DecompSelf) IN
       IF ~n.res.ok THEN DecompReturn(n.res, decompressor.input)
       ELSE DecompReturn(Ok(<<decompressor.data, n.res.v>>), decompressor.input)
    /\ UNCHANGED lookupVars /\ UNCHANGED histVars
    /\ UNCHANGED <<parser, pc, num_contracts, contract_updates, class_declarations>>

NextDecomp ==
    \/ \E i \in DecompressInputs : Decompress(i)
    \/ UnpackUniqueValues
    \/ UnpackRepeatingValues
    \/ UnpackBucketIndexPerElm
    \/ ReconstructData
    \/ DecompCheckZeroTail

SpecDecomp == Init /\ [][NextDecomp]_vars

----------------------------------------------------------------------------
(* PackConst::unpack_contract_update over packed words *)

\* nonces and update counts are drawn from 0..MaxField and 2^30
MaxField == 3
FieldValues == (0..MaxField) \cup {2^30}

\* the bits set above the fields of a word below 2^252
HighBits == {{}, {129}, {130}, {200}, {251}, {129, 251}}

PackedWords ==
    {Pack1(class_flag, nonce, update_count) \cup high :
        class_flag \in BOOLEAN, nonce \in FieldValues, update_count \in FieldValues,
        high \in HighBits}

UnpackContractUpdate(version, packed) ==
    /\ ret' = [op |-> "unpack_contract_update", version |-> version, packed |-> packed,
               res |-> unpack_contract_update(PackConstOf(version), packed)]
    /\ UNCHANGED lookupVars /\ UNCHANGED parseVars /\ UNCHANGED histVars

\* the long packed word of v0_13_3
Pack3Long(class_flag, nonce, update_count) ==
    (IF class_flag THEN Felt(1) ELSE {})
        \cup Shl(Felt(nonce), 66) \cup Shl(Felt(update_count), 2)

\* the bits set above the fields of a long and of a short word of v0_13_3
HighBitsLong == {{}, {130}, {200}, {251}}
HighBitsShort == {{}, {74}, {129}, {130}, {251}}

\* the words of v0_13_3: long ones, and short ones with a count of up to 8 bits
PackedWords3 ==
    {Pack3Long(class_flag, nonce, update_count) \cup high :
        class_flag \in BOOLEAN, nonce \in FieldValues, update_count \in FieldValues,
        high \in HighBitsLong}
    \cup {Pack3Short(class_flag, nonce, update_count) \cup high :
            class_flag \in BOOLEAN, nonce \in FieldValues,
            update_count \in (0..MaxField) \cup {255},
            high \in HighBitsShort}
    \cup {Felt(46), Felt(3074), Felt(1464)}

\* each word is unpacked with the constants of its version
NextUnpack ==
    \/ \E packed \in PackedWords : UnpackContractUpdate("v0_13_1", packed)
    \/ \E packed \in PackedWords3 : UnpackContractUpdate("v0_13_3", packed)

SpecUnpack == Init /\ [][NextUnpack]_vars

----------------------------------------------------------------------------
(* get_n_elms_per_felt over element bounds *)

\* element bounds are drawn from 0..MaxElmBound and from around the powers of two
MaxElmBound == 130
ElmBounds ==
    (0..MaxElmBound) \cup UNION {{2^k - 1, 2^k, 2^k + 1} : k \in 8..29} \cup {2^30}

GetNElmsPerFelt(elm_bound) ==
    /\ ret' = [op |-> "get_n_elms_per_felt", elm_bound |-> elm_bound,
               res |-> Ok(get_n_elms_per_felt(elm_bound))]
    /\ UNCHANGED lookupVars /\ UNCHANGED parseVars /\ UNCHANGED histVars

NextPackCount == \E elm_bound \in ElmBounds : GetNElmsPerFelt(elm_bound)

SpecPackCount == Init /\ [][NextPackCount]_vars

----------------------------------------------------------------------------
(* Transformer (transform.rs)                                              *)
(*                                                                         *)
(* The arithmetic of the transform is that of a prime field with a         *)
(* primitive root of unity of the order of the vector.  The field of the   *)
(* program has a 255-bit modulus and the vector 4096 elements; both are    *)
(* scaled here: the modulus is 17, the vector has 2^TransformLog elements  *)
(* and the generator is a primitive 2^TransformLog-th root of unity        *)
(* modulo 17, as the program's generator is a primitive 4096-th root of    *)
(* unity modulo its modulus.  Every step of the code is kept: the          *)
(* bit-reversed order of the points, the two divisions of a butterfly,     *)
(* the subtraction that BigUint refuses below zero, the recursion on the   *)
(* halves and the merge.                                                   *)

TransformLog == 2

TransformLen == 2^TransformLog

bls_modulus == 17

generator == (3^(16 \div TransformLen)) % bls_modulus

two == 2

RECURSIVE modpow(_, _, _)
modpow(b, e, m) == IF e = 0 THEN 1 % m ELSE (b * modpow(b, e - 1, m)) % m

RECURSIVE ReverseFrom(_, _)
ReverseFrom(s, k) ==
    IF k = 16 THEN 0
    ELSE ((s \div 2^k) % 2) * 2^(15 - k) + ReverseFrom(s, k + 1)

\* u16::reverse_bits
reverse_bits(s) == ReverseFrom(s, 0)

gen_exp_mod(exponent) == modpow(generator, exponent, bls_modulus)

\* Transformer::new: the divisor keeps the low bits of the reversal, 16
\* for the 4096 points of the program
points ==
    [i \in 1..TransformLen |->
        gen_exp_mod(reverse_bits(i - 1) \div 2^(16 - TransformLog))]

div_mod(a, b) ==
    LET e == bls_modulus - two
        pow == modpow(b, e, bls_modulus)
    IN (a * pow) % bls_modulus

\* the loop of ifft: the three vectors it pushes to, or the panic of the
\* BigUint subtraction
Butterflies(arr, xs) ==
    LET n == Len(arr) \div 2
        a(i) == arr[2 * i - 1]
        b(i) == arr[2 * i]
        x(i) == xs[2 * i - 1]
        diff(i) == IF b(i) > a(i) THEN bls_modulus - (b(i) - a(i))
                   ELSE a(i) - b(i)
    IN IF \E i \in 1..n : b(i) > a(i) /\ b(i) - a(i) > bls_modulus
       THEN Panic("attempt to subtract with overflow")
       ELSE Ok([res0 |-> [i \in 1..n |-> div_mod(a(i) + b(i), two)],
                res1 |-> [i \in 1..n |-> div_mod(diff(i), two * x(i))],
                new_xs |-> [i \in 1..n |-> (x(i) * x(i)) % bls_modulus]])

Interleaved(e0, e1) ==
    [i \in 1..(2 * Len(e0)) |->
        IF i % 2 = 1 THEN e0[(i + 1) \div 2] ELSE e1[i \div 2]]

\* ifft with the halves appended one after the other
RECURSIVE ifft_concatenated(_, _)
ifft_concatenated(arr, xs) ==
    IF Len(arr) = 1 THEN Ok(arr)
    ELSE LET h == Butterflies(arr, xs) IN
         IF ~h.ok THEN h
         ELSE LET merged_res0 == ifft_concatenated(h.v.res0, h.v.new_xs)
                  merged_res1 == ifft_concatenated(h.v.res1, h.v.new_xs)
              IN IF ~merged_res0.ok THEN merged_res0
                 ELSE IF ~merged_res1.ok THEN merged_res1
                 ELSE Ok(merged_res0.v \o merged_res1.v)

RECURSIVE ifft(_, _)
ifft(arr, xs) ==
    IF Len(arr) = 1 THEN Ok(arr)
    ELSE LET h == Butterflies(arr, xs) IN
         IF ~h.ok THEN h
         ELSE LET merged_res0 == ifft(h.v.res0, h.v.new_xs)
                  merged_res1 == ifft(h.v.res1, h.v.new_xs)
              IN IF ~merged_res0.ok THEN merged_res0
                 ELSE IF ~merged_res1.ok THEN merged_res1
                 ELSE Ok(Interleaved(merged_res0.v, merged_res1.v))

transform(arr) == ifft(arr, points)

\* elements of a blob: below the modulus, and what 64 hex digits can hold
\* above it (the largest is a little more than twice the modulus)
LowElements == {0, 5, bls_modulus - 1}

HighElements == {0, bls_modulus, 2 * bls_modulus + 3}

TransformInputs ==
    [1..TransformLen -> LowElements] \cup [1..TransformLen -> HighElements]

\* one transform of a freshly built Transformer
Transform(arr) ==
    /\ ret.op = "new"
    /\ ret' = [op |-> "transform", arr |-> arr, res |-> transform(arr)]
    /\ UNCHANGED lookupVars /\ UNCHANGED parseVars /\ UNCHANGED histVars

NextTransform == \E arr \in TransformInputs : Transform(arr)

SpecTransform == Init /\ [][NextTransform]_vars

(* The JSON projection of a StateDiff (state_diff.rs)                      *)

HexDigit(d) == SubSeq("0123456789abcdef", d + 1, d + 1)

NibbleAt(f, k) == SumPow({b \in 0..3 : (4 * k + b) \in f})

RECURSIVE HexFrom(_, _)
HexFrom(f, k) ==
    IF k < 0 THEN "" ELSE HexDigit(NibbleAt(f, k)) \o HexFrom(f, k - 1)

\* BigUint::to_str_radix(16): no leading zero, "0" for zero
to_str_radix16(f) == IF f = {} THEN "0" ELSE HexFrom(f, SetMax(f) \div 4)

convert_biguint(biguint) == "0x" \o to_str_radix16(biguint)

\* the derived Serialize of StorageUpdate and of ClassDeclaration
SerializeStorageUpdate(su) ==
    [key |-> convert_biguint(su.key), value |-> convert_biguint(su.value)]

SerializeClassDeclaration(cd) ==
    [class_hash |-> convert_biguint(cd.class_hash),
     compiled_class_hash |-> convert_biguint(cd.compiled_class_hash)]

to_contract_storage_diff_item(cu) ==
    [address |-> convert_biguint(cu.address),
     storage_entries |->
         [i \in 1..Len(cu.storage_updates) |->
             SerializeStorageUpdate(cu.storage_updates[i])]]

\* class_hash is null when no class hash is set
to_deployed_contract_item(cu) ==
    [address |-> convert_biguint(cu.address),
     class_hash |-> IF IsSome(cu.new_class_hash)
                    THEN convert_biguint(cu.new_class_hash.v) ELSE "null"]

to_nonce_item(cu) ==
    [contract_address |-> convert_biguint(cu.address),
     nonce |-> convert_biguint(Felt(cu.nonce))]

\* iter().filter(keep).map(item).collect()
FilterMap(s, keep(_), item(_)) ==
    LET kept == SelectSeq(s, keep) IN [i \in 1..Len(kept) |-> item(kept[i])]

\* a projection that lists a nonce item for every contract
to_json_state_diff_every_nonce(sd) ==
    LET some_storage(cu) == Len(cu.storage_updates) > 0
        some_class(cu) == IsSome(cu.new_class_hash)
        every(cu) == TRUE
    IN [storage_diffs |->
            FilterMap(sd.contract_updates, some_storage, to_contract_storage_diff_item),
        declared_classes |->
            [i \in 1..Len(sd.class_declarations) |->
                SerializeClassDeclaration(sd.class_declarations[i])],
        deployed_or_replaced |->
            FilterMap(sd.contract_updates, some_class, to_deployed_contract_item),
        nonces |-> FilterMap(sd.contract_updates, every, to_nonce_item)]

to_json_state_diff(sd) ==
    LET some_storage(cu) == Len(cu.storage_updates) > 0
        some_class(cu) == IsSome(cu.new_class_hash)
        some_nonce(cu) == cu.nonce # 0
    IN [storage_diffs |->
            FilterMap(sd.contract_updates, some_storage, to_contract_storage_diff_item),
        declared_classes |->
            [i \in 1..Len(sd.class_declarations) |->
                SerializeClassDeclaration(sd.class_declarations[i])],
        deployed_or_replaced |->
            FilterMap(sd.contract_updates, some_class, to_deployed_contract_item),
        nonces |-> FilterMap(sd.contract_updates, some_nonce, to_nonce_item)]

MaxUpdates == 2

\* the k-th contract update of a diff: address 42 + k - 1, so that the
\* order of the items shows
ContractUpdateChoices(k) ==
    {[address |-> Felt(41 + k), nonce |-> nonce,
      new_class_hash |-> new_class_hash, storage_updates |-> storage_updates] :
        nonce \in {0, 1},
        new_class_hash \in {None, Some(Felt(37))},
        storage_updates \in {<<>>, <<[key |-> Felt(1), value |-> Felt(20)]>>}}

ClassDeclarationChoices ==
    {<<>>, <<[class_hash |-> Felt(3078), compiled_class_hash |-> Felt(0)]>>}

StateDiffs ==
    {[contract_updates |-> cus, class_declarations |-> cds] :
        cus \in UNION {{s \in [1..n -> UNION {ContractUpdateChoices(k) : k \in 1..n}] :
                          \A k \in 1..n : s[k] \in ContractUpdateChoices(k)} :
                       n \in 0..MaxUpdates},
        cds \in ClassDeclarationChoices}

\* one projection of a diff
ToJsonStateDiff(sd) ==
    /\ ret.op = "new"
    /\ ret' = [op |-> "to_json_state_diff", sd |-> sd,
               res |-> Ok(to_json_state_diff(sd))]
    /\ UNCHANGED lookupVars /\ UNCHANGED parseVars /\ UNCHANGED histVars

NextJson == \E sd \in StateDiffs : ToJsonStateDiff(sd)

SpecJson == Init /\ [][NextJson]_vars

(* uncond_parse (main.rs): one sequence, compressed or not                 *)

\* comparison variant: every sequence is taken for compressed
NotCompressedNever(seq) == FALSE

\* seq[0].to_usize().is_some()
NotCompressed(seq) == \A b \in seq[1] : b < 64

\* state diffs as v0_13_3 writes them: no contract and no class; a contract
\* with a nonce; a contract with one storage update; and a truncated one
FormatFlats ==
    {<<Felt(0), Felt(0)>>,
     <<Felt(1), Felt(5), Pack3Long(FALSE, 1, 0), Felt(0)>>,
     <<Felt(1), Felt(5), Pack3Short(FALSE, 0, 1), Felt(7), Felt(9), Felt(0)>>,
     <<Felt(1), Felt(5)>>}

\* the sequences uncond_parse is given: none, plain ones of v0_13_1,
\* compressed ones, compressed ones with a damaged header, and sequences
\* whose first element has its lowest bit beyond usize and is no header
FormatInputs ==
    {[kind |-> "empty", flat |-> <<>>, tail |-> 0, flips |-> {}, seq |-> <<>>]}
    \cup {[kind |-> "plain", flat |-> s, tail |-> t, flips |-> {}, seq |-> s \o Zeros(t)] :
            s \in {PlainBlob.seq, SingleContractBlob.seq, CountedSingleBlob.seq,
                   <<Felt(0), Felt(0)>>, <<Felt(0)>>},
            t \in 0..MaxTail}
    \cup {[kind |-> "compressed", flat |-> flat, tail |-> t, flips |-> {},
           seq |-> compress(flat) \o Zeros(t)] : flat \in FormatFlats, t \in 0..MaxTail}
    \cup {[kind |-> "header", flat |-> flat, tail |-> 0, flips |-> bits,
           seq |-> <<Flip(Head(compress(flat)), bits)>> \o Tail(compress(flat))] :
            flat \in FormatFlats, bits \in {{0}, {180}}}
    \cup {[kind |-> "wide", flat |-> <<>>, tail |-> 0, flips |-> {},
           seq |-> <<{64}, Felt(0)>>]}

\* uncond_parse up to the parse or the decompression it starts
UncondParse(i) ==
    /\ ret.op = "new"
    /\ pc = "idle"
    /\ decompressor = NoDecompressor
    /\ IF Len(i.seq) = 0
       THEN /\ ret' = [op |-> "uncond_parse", res |-> Err("empty sequence")]
            /\ pc' = "aborted"
            /\ input' = [blob |-> 0, block |-> 0, db |-> db, seq |-> i.seq]
            /\ UNCHANGED <<parser, decompressor>>
            /\ UNCHANGED <<hi, recorded, log>>
       ELSE IF NotCompressed(i.seq)
       THEN /\ parser' = [NoParser EXCEPT !.current = i.seq, !.pack_const = "v0_13_1"]
            /\ pc' = "contract_updates"
            /\ input' = [blob |-> 0, block |-> 0, db |-> db, seq |-> i.seq]
            /\ UNCHANGED <<ret, decompressor>>
            /\ UNCHANGED <<hi, recorded, log>>
       ELSE Decompress(i)
    /\ UNCHANGED lookupVars
    /\ UNCHANGED <<num_contracts, contract_updates, class_declarations>>

\* decompress has returned: its error is passed on, its sequence is parsed
ParseDecompressed ==
    /\ ret.op = "decompress"
    /\ pc = "idle"
    /\ IF ~ret.res.ok
       THEN /\ ret' = [op |-> "uncond_parse", res |-> ret.res]
            /\ pc' = "aborted"
            /\ UNCHANGED parser
       ELSE /\ parser' = [NoParser EXCEPT !.current = ret.res.v[1],
                                          !.pack_const = "v0_13_3"]
            /\ pc' = "contract_updates"
            /\ UNCHANGED ret
    /\ UNCHANGED lookupVars /\ UNCHANGED histVars
    /\ UNCHANGED <<num_contracts, contract_updates, class_declarations, decompressor>>

NextFormat ==
    \/ \E i \in FormatInputs : UncondParse(i)
    \/ UnpackUniqueValues
    \/ UnpackRepeatingValues
    \/ UnpackBucketIndexPerElm
    \/ ReconstructData
    \/ DecompCheckZeroTail
    \/ ParseDecompressed
    \/ ParseContractUpdates
    \/ ParseContractUpdate
    \/ ParseClassDeclarations
    \/ CheckZeroTail

SpecFormat == Init /\ [][NextFormat]_vars

(* Downloader::repeat_get (download.rs): the attempts of one call          *)

MAX_RETRIES == 5
FAILED_FETCH_RETRY_INTERVAL_S == 10

\* what client.get(url).send() can give: a transport error, or a response
\* with a status
TransportError == [kind |-> "error", status |-> 0]
Response(status) == [kind |-> "response", status |-> status]
GetResults ==
    {TransportError} \cup {Response(s) : s \in {100, 199, 200, 204, 302, 399, 400, 404, 503}}

\* comparison variant: a status below 200 is retried like an error status
AttemptOutcomeLenient(r) ==
    IF r.kind = "error" THEN "retry"
    ELSE IF r.status < 200 \/ r.status >= 400 THEN "retry"
    ELSE "return"

\* the body of the loop for one result of send()
AttemptOutcome(r) ==
    IF r.kind = "error" THEN "retry"
    ELSE IF r.status < 200 THEN "fail"
    ELSE IF r.status >= 400 THEN "retry"
    ELSE "return"

\* repeat_get is entered
RepeatGet ==
    /\ ret.op = "new"
    /\ pc = "idle"
    /\ pc' = "get"
    /\ ret' = [op |-> "repeat_get", attempt |-> 1, sent |-> <<>>, slept |-> 0,
               res |-> None]
    /\ UNCHANGED lookupVars /\ UNCHANGED histVars
    /\ UNCHANGED <<parser, num_contracts, contract_updates, class_declarations,
                   decompressor>>

\* one pass of the loop: the GET of this attempt comes back with r; after
\* the sleep of the last attempt the loop is left and the call fails
Attempt(r) ==
    /\ pc = "get"
    /\ ret.attempt <= MAX_RETRIES
    /\ LET sent == Append(ret.sent, r)
           outcome == AttemptOutcome(r)
       IN IF outcome = "fail"
          THEN /\ ret' = [ret EXCEPT !.sent = sent, !.res = Err("got status")]
               /\ pc' = "aborted"
          ELSE IF outcome = "return"
          THEN /\ ret' = [ret EXCEPT !.sent = sent, !.res = Ok(r)]
               /\ pc' = "idle"
          ELSE IF ret.attempt < MAX_RETRIES
          THEN /\ ret' = [ret EXCEPT !.sent = sent, !.attempt = @ + 1,
                                     !.slept = @ + FAILED_FETCH_RETRY_INTERVAL_S]
               /\ UNCHANGED pc
          ELSE /\ ret' = [ret EXCEPT !.sent = sent,
                                     !.slept = @ + FAILED_FETCH_RETRY_INTERVAL_S,
                                     !.res = Err("can't get blob")]
               /\ pc' = "aborted"
    /\ UNCHANGED lookupVars /\ UNCHANGED histVars
    /\ UNCHANGED <<parser, num_contracts, contract_updates, class_declarations,
                   decompressor>>

NextFetch ==
    \/ RepeatGet
    \/ \E r \in GetResults : Attempt(r)

SpecFetch == Init /\ [][NextFetch]_vars

(* The parser over blobs that use the table IntroBlob has filled *)

\* IntroBlob, LaterBlob, RevisitBlob and PlainBlob, and the blobs of OnBlobs
ResolveBlobNos == (1..4) \cup ((Len(Blobs) + 1)..Len(AllBlobs))

NextResolve ==
    \/ \E b \in Blocks, k \in ResolveBlobNos : ScanBlob(b, k)
    \/ ParseContractUpdates
    \/ ParseContractUpdate
    \/ ParseClassDeclarations
    \/ CheckZeroTail

SpecResolve == Init /\ [][NextResolve]_vars

(* A caller that keeps the Lookup after a parse has returned an error and  *)
(* hands it to the parse of the next blob                                   *)

\* the error of the parse is taken note of and the scan goes on
CarryOn ==
    /\ pc = "aborted"
    /\ ret.op = "parse"
    /\ pc' = "idle"
    /\ UNCHANGED <<ret, parser, num_contracts, contract_updates, class_declarations,
                   decompressor>>
    /\ UNCHANGED lookupVars /\ UNCHANGED histVars

\* IntroBlob, TruncatedBlob and GapBlob
ReuseBlobNos == {1, 6, 7}

NextReuse ==
    \/ \E b \in Blocks, k \in ReuseBlobNos : ScanBlob(b, k)
    \/ ParseContractUpdates
    \/ ParseContractUpdate
    \/ ParseClassDeclarations
    \/ CheckZeroTail
    \/ CarryOn

SpecReuse == Init /\ [][NextReuse]_vars

(* A scan that comes to the same blob again: IntroBlob, LaterBlob and       *)
(* RevisitBlob, one blob more than MaxParses                                *)

ReplayBlobNos == 1..3

ScanReplay(b, k) == Scan(b, k, MaxParses + 1)

NextReplay ==
    \/ \E b \in Blocks, k \in ReplayBlobNos : ScanReplay(b, k)
    \/ ParseContractUpdates
    \/ ParseContractUpdate
    \/ ParseClassDeclarations
    \/ CheckZeroTail

SpecReplay == Init /\ [][NextReplay]_vars

(* Dumper (dump.rs): the block of the scan and the names of its dump files. *)
(* A Dumper value d holds cur_block_no and cur_block_repeat.                *)

\* a block is set again at most MaxRepeat times
MaxRepeat == 2
\* block numbers whose decimal digits run into one another
DumpBlocks == {1, 2, 11, 12}
Extensions == {"seq", "unc"}
\* at most MaxTargets dump targets are made
MaxTargets == 2

NewDumper == [cur_block_no |-> None, cur_block_repeat |-> 0]

\* comparison variant: a lower block number is taken like a higher one
dumper_set_block_no_unordered(d, block_no) ==
    IF IsSome(d.cur_block_no) /\ block_no = d.cur_block_no.v
    THEN [d |-> [d EXCEPT !.cur_block_repeat = @ + 1], res |-> Ok(Unit)]
    ELSE [d |-> [cur_block_no |-> Some(block_no), cur_block_repeat |-> 0],
          res |-> Ok(Unit)]

\* Dumper::set_block_no
dumper_set_block_no(d, block_no) ==
    IF IsSome(d.cur_block_no) /\ block_no < d.cur_block_no.v
    THEN [d |-> d, res |-> Err("block followed by")]
    ELSE IF IsSome(d.cur_block_no) /\ block_no = d.cur_block_no.v
    THEN [d |-> [d EXCEPT !.cur_block_repeat = @ + 1], res |-> Ok(Unit)]
    ELSE [d |-> [cur_block_no |-> Some(block_no), cur_block_repeat |-> 0],
          res |-> Ok(Unit)]

\* format!("{}", n) of an unsigned integer: its decimal digits
RECURSIVE Decimal(_)
Decimal(n) ==
    LET digit == <<"0", "1", "2", "3", "4", "5", "6", "7", "8", "9">>[(n % 10) + 1] IN
    IF n < 10 THEN digit ELSE Decimal(n \div 10) \o digit

\* Dumper::make_dump_target: the file name under cache_dir
make_dump_target(d, ext) ==
    IF ~IsSome(d.cur_block_no) THEN Err("internal error: Dumper.cur_block_no not set")
    ELSE LET sub_block == IF d.cur_block_repeat > 0
                          THEN "-" \o Decimal(d.cur_block_repeat) ELSE ""
         IN Ok(Decimal(d.cur_block_no.v) \o sub_block \o "." \o ext)

DumperNew ==
    /\ ret.op = "new"
    /\ pc = "idle"
    /\ pc' = "dump"
    /\ ret' = [op |-> "Dumper::new", dumper |-> NewDumper, res |-> Ok(Unit), made |-> {}]
    /\ UNCHANGED lookupVars /\ UNCHANGED histVars
    /\ UNCHANGED <<parser, num_contracts, contract_updates, class_declarations,
                   decompressor>>

\* the driver sets the block of the next log; an error ends the run
DumperSetBlock(b) ==
    /\ pc = "dump"
    /\ ret.dumper.cur_block_no = Some(b) => ret.dumper.cur_block_repeat < MaxRepeat
    /\ LET r == dumper_set_block_no(ret.dumper, b) IN
       /\ ret' = [op |-> "Dumper::set_block_no", dumper |-> r.d, res |-> r.res,
                  made |-> ret.made]
       /\ pc' = IF r.res.ok THEN "dump" ELSE "aborted"
    /\ UNCHANGED lookupVars /\ UNCHANGED histVars
    /\ UNCHANGED <<parser, num_contracts, contract_updates, class_declarations,
                   decompressor>>

\* a dump target is made for the current block; made remembers under which
\* block and repeat each name was made
MakeDumpTarget(ext) ==
    /\ pc = "dump"
    /\ Cardinality(ret.made) < MaxTargets
    /\ LET r == make_dump_target(ret.dumper, ext) IN
       /\ ret' = [op |-> "Dumper::make_dump_target", dumper |-> ret.dumper, res |-> r,
                  made |-> IF r.ok
                           THEN ret.made \cup {[block |-> ret.dumper.cur_block_no.v,
                                                repeat |-> ret.dumper.cur_block_repeat,
                                                ext |-> ext, name |-> r.v]}
                           ELSE ret.made]
       /\ pc' = IF r.ok THEN "dump" ELSE "aborted"
    /\ UNCHANGED lookupVars /\ UNCHANGED histVars
    /\ UNCHANGED <<parser, num_contracts, contract_updates, class_declarations,
                   decompressor>>

NextDump ==
    \/ DumperNew
    \/ \E b \in DumpBlocks : DumperSetBlock(b)
    \/ \E ext \in Extensions : MakeDumpTarget(ext)

SpecDump == Init /\ [][NextDump]_vars

(* What the claims speak of *)

SelfNext == Lookup(scratchpad', cur_block_no', db')

Table(d) == d.lookup_table.rows
Phase(d) == d.phase_change.rows
Crest(d) == IF "crest" \in DOMAIN Phase(d) THEN Some(Phase(d)["crest"]) ELSE None
StatefulStart(d) == IF "stateful" \in DOMAIN Phase(d) THEN Some(Phase(d)["stateful"]) ELSE None
TableSize(d) == Cardinality(DOMAIN Table(d))

\* the scratchpad indices are exactly 128+n, 128+n+1, ... with no gap
Contiguous(sp, n) ==
    DOMAIN sp = (START_INDEX + n)..(START_INDEX + n + Cardinality(DOMAIN sp) - 1)

\* the step is a call of expand that is not a replay and returns success
CommittingExpand == ret'.op = "expand" /\ ret'.res.ok /\ PastCrest

\* C2: the store changes only in an expand that commits, and that commit writes
\* every scratchpad entry together with crest (and stateful_start the first
\* time); every other call, a replayed expand and a failing expand leave it as
\* it was.
C2_AtomicCommit ==
    [][db' # db =>
        /\ CommittingExpand
        /\ DOMAIN Table(db') = (DOMAIN Table(db)) \cup (DOMAIN scratchpad)
        /\ \A i \in DOMAIN scratchpad : get(SelfNext, i) = Ok(scratchpad[i])
        /\ \A i \in DOMAIN Table(db) : Table(db')[i] = Table(db)[i]
        /\ Crest(db') = cur_block_no
        /\ StatefulStart(db') = IF IsSome(StatefulStart(db)) THEN StatefulStart(db)
                                ELSE cur_block_no]_vars

\* one commit wrote two entries, crest and stateful_start together
C2_Witness ==
    /\ ret.op = "expand" /\ ret.res.ok
    /\ TableSize(db) >= 2
    /\ IsSome(Crest(db)) /\ Crest(db) = StatefulStart(db) /\ Crest(db) = cur_block_no

\* C3: an expand past the replay test succeeds only on a scratchpad whose indices
\* are 128+|table|, 128+|table|+1, ...; otherwise it fails with 'not complete
\* before' when the first index is wrong and 'not consecutive' when a later one
\* is; so the table's keys are always 128 .. 128+|table|-1.
C3_ContiguousAppends ==
    /\ [](DOMAIN Table(db) = START_INDEX..(START_INDEX + TableSize(db) - 1))
    /\ [][(ret'.op = "expand" /\ PastCrest) =>
            IF Contiguous(scratchpad, TableSize(db))
            THEN ret'.res.ok \/ ~IsSome(cur_block_no)
            ELSE IF SetMin(DOMAIN scratchpad) # START_INDEX + TableSize(db)
                 THEN ret'.res = Err("lookup table not complete before")
                 ELSE ret'.res = Err("index not consecutive")]_vars

\* a gap after an accepted first index was rejected and nothing was appended
C3_Witness ==
    /\ ret.op = "expand" /\ ret.res = Err("index not consecutive")
    /\ scratchpad = EmptyMap /\ TableSize(db) = 0

\* C4: a value get(i) has returned is what get(i) returns after every later call.
C4_EntriesImmutable ==
    [][db' # db =>
         \A i \in Indices : get(Self, i).ok => get(SelfNext, i) = get(Self, i)]_vars

\* a second commit has been made over a table that already held an entry
C4_Witness ==
    /\ ret.op = "expand" /\ ret.res.ok
    /\ TableSize(db) >= 2
    /\ IsSome(Crest(db)) /\ Crest(db) # StatefulStart(db)

\* C5: an expand that commits grows the table by the size of the scratchpad, sets
\* crest to the current block number and sets stateful_start to it when
\* stateful_start was not set.
C5_CommitEffect ==
    LET r == expand(Self) IN
    (r.res.ok /\ PastCrest) =>
        /\ TableSize(r.lk.db) = TableSize(db) + Cardinality(DOMAIN scratchpad)
        /\ Crest(r.lk.db) = cur_block_no
        /\ StatefulStart(r.lk.db) = IF IsSome(StatefulStart(db)) THEN StatefulStart(db)
                                    ELSE cur_block_no

\* a later commit that added an entry and kept the earlier stateful_start
C5_Witness ==
    /\ ret.op = "expand" /\ ret.res.ok
    /\ Crest(db) = cur_block_no
    /\ IsSome(StatefulStart(db)) /\ StatefulStart(db).v < cur_block_no.v
    /\ TableSize(db) = Cardinality(DOMAIN recorded) /\ TableSize(db) >= 1

\* C6: get fails below 128 and for every index that was not committed, and
\* returns for a committed index the value its scratchpad entry had.
C6_GetReturnsRecorded ==
    /\ \A i \in Indices \cup {0} :
          get(Self, i) = IF i >= START_INDEX /\ i \in DOMAIN recorded
                         THEN Ok(recorded[i])
                         ELSE IF i < START_INDEX THEN Err("index is too small")
                         ELSE IF DOMAIN recorded = {} /\ ~db.lookup_table.exists
                              THEN Err("table does not exist")
                              ELSE Err("index not found")
    /\ ret.op = "get" => \E i \in Indices : ret.res = get(Self, i)

\* get has returned a committed two-byte value
C6_Witness == ret.op = "get" /\ ret.res = Ok(FeltA)

\* C7: record fails for an index below 128 and for an index already in the
\* scratchpad, leaving the scratchpad as it was; otherwise it adds exactly
\* index -> value.
C7_RecordContract ==
    \A index \in Indices, value \in Values :
        LET r == record(Self, index, value) IN
        /\ r.lk.db = db /\ r.lk.cur_block_no = cur_block_no
        /\ IF index < START_INDEX \/ index \in DOMAIN scratchpad
           THEN ~r.res.ok /\ r.lk.scratchpad = scratchpad
           ELSE /\ r.res.ok
                /\ DOMAIN r.lk.scratchpad = (DOMAIN scratchpad) \cup {index}
                /\ r.lk.scratchpad[index] = value
                /\ \A j \in DOMAIN scratchpad : r.lk.scratchpad[j] = scratchpad[j]

\* a duplicate index was rejected
C7_Witness == ret.op = "record" /\ ret.res = Err("index repeated")

\* C8: is_on returns true exactly when stateful_start is set, the current block
\* number is at least stateful_start and the table is not empty.
IsOnCondition ==
    /\ IsSome(StatefulStart(db))
    /\ IsSome(cur_block_no)
    /\ cur_block_no.v >= StatefulStart(db).v
    /\ DOMAIN Table(db) # {}
C8_IsOn ==
    /\ (is_on(Self) = Ok(TRUE)) <=> IsOnCondition
    /\ ret.op = "is_on" => ((ret.res = Ok(TRUE)) <=> IsOnCondition)

\* is_on has returned false at a block past stateful_start over an empty table
C8_Witness ==
    /\ ret.op = "is_on" /\ ret.res = Ok(FALSE)
    /\ IsSome(StatefulStart(db)) /\ IsSome(cur_block_no)
    /\ cur_block_no.v >= StatefulStart(db).v

\* the current block number is lower than one set earlier in the run
OutOfOrder == IsSome(cur_block_no) /\ cur_block_no.v < hi

\* C9 as stated: an expand at a block number lower than one set earlier in the
\* run, and not a replay, returns an error instead of committing.
C9_RejectsOutOfOrder == (OutOfOrder /\ PastCrest) => ~expand(Self).res.ok

\* C9: expand compares the current block number with crest only.  At a block
\* number lower than one set earlier in the run it is a replay when the number is
\* at or below crest, and otherwise commits a contiguous scratchpad as at any
\* other block, moving crest to the current block number.
C9_OutOfOrderCommits ==
    OutOfOrder =>
        LET r == expand(Self) IN
        IF PastCrest
        THEN /\ r.res.ok <=> Contiguous(scratchpad, TableSize(db))
             /\ r.res.ok => /\ Crest(r.lk.db) = cur_block_no
                            /\ \A i \in DOMAIN scratchpad :
                                  get(r.lk, i) = Ok(scratchpad[i])
             /\ ~r.res.ok => r.lk.db = db
        ELSE r.res.ok /\ r.lk.db = db /\ r.lk.scratchpad = EmptyMap

\* an entry is about to be committed at a block number below the highest of the
\* run and above crest
C9_Witness ==
    /\ OutOfOrder /\ PastCrest /\ IsSome(Crest(db))
    /\ scratchpad # EmptyMap /\ Contiguous(scratchpad, TableSize(db))
    /\ ret.op = "record" /\ ret.res.ok

\* a parse has just returned; log[Len(log)] is its entry
ParseEnded == ret.op = "parse" /\ log # <<>>

\* the parse that has just returned was of a blob that an earlier parse at the
\* same block number had committed, and crest was at or past that block number
ReplayOf(i) ==
    /\ i < Len(log)
    /\ log[i].blob = input.blob /\ log[i].block = input.block
    /\ log[i].ok /\ log[i].after # log[i].before
    /\ IsSome(Crest(input.db)) /\ input.block <= Crest(input.db).v

\* expand at a block number at or below crest
ReplayedExpand ==
    (IsSome(Crest(db)) /\ IsSome(cur_block_no) /\ cur_block_no.v <= Crest(db).v) =>
        LET r == expand(Self) IN
        r.res.ok /\ r.lk.scratchpad = EmptyMap /\ r.lk.db = db

\* contract 1 occurs once among the addresses
OnceOne(addresses) == Cardinality({j \in 1..Len(addresses) : addresses[j] = Felt(1)}) = 1

BlobNo(blob) == CHOOSE k \in 1..Len(Blobs) : Blobs[k] = blob

C10_CrossBlobResolution ==
    /\ (ParseEnded /\ ret.res.ok /\ input.blob = BlobNo(IntroBlob)
            /\ TableSize(input.db) = 0) =>
          (get(Self, 128) = Ok(FeltA) /\ get(Self, 129) = Ok(FeltB))
    /\ \A i \in 1..Len(log) :
          (/\ ParseEnded /\ i < Len(log)
           /\ log[i].blob = BlobNo(IntroBlob) /\ log[i].ok
           /\ TableSize(log[i].before) = 0
           /\ input.blob = BlobNo(LaterBlob) /\ input.block > log[i].block) =>
              (ret.res.ok /\ ret.res.v.contract_updates[2].address = FeltA)

\* the step is a parse_contract_update that returned a contract update
UpdateParsed == pc = "contract_update" /\ Len(contract_updates') = Len(contract_updates) + 1

\* C11: every contract update a parse collects has as many storage updates as
\* the update_count unpacked from its packed word and a new_class_hash exactly
\* when the unpacked class_flag is set, one more element being consumed for the
\* hash in that case; the StateDiff of a successful parse holds the collected
\* updates.
C11_CountsMatchPackedWord ==
    [][IF UpdateParsed
       THEN LET u == unpack_contract_update(PackConstOf(parser.pack_const),
                                            parser.current[2])
                cu == contract_updates'[Len(contract_updates')]
            IN /\ u.ok
               /\ Len(cu.storage_updates) = u.v[3]
               /\ IsSome(cu.new_class_hash) <=> u.v[1]
               /\ cu.nonce = u.v[2]
               /\ Len(parser.current) - Len(parser'.current)
                     = 2 + (IF u.v[1] THEN 1 ELSE 0) + 2 * u.v[3]
               /\ u.v[1] => cu.new_class_hash = Some(parser.current[3])
       ELSE (pc = "zero_tail" /\ ret'.op = "parse" /\ ret'.res.ok) =>
                ret'.res.v.contract_updates = contract_updates]_vars

\* a parse returned a contract update with a class hash and one storage update
\* next to a contract update with three storage updates and no class hash
C11_Witness ==
    /\ ParseEnded /\ ret.res.ok
    /\ \E i \in 1..Len(ret.res.v.contract_updates) :
          LET cu == ret.res.v.contract_updates[i] IN
          \/ cu.new_class_hash = Some(Felt(9)) /\ Len(cu.storage_updates) = 1
          \/ cu.new_class_hash = None /\ Len(cu.storage_updates) = 3

\* parse_contract_update called in lookup-usage state st with a zero address
\* ahead of the elements still to be read
ZeroAddressParse(st) ==
    parse_contract_update([Borrow(parser) EXCEPT !.lookup_usage_state = st,
                                                 !.current = <<Felt(0)>> \o parser.current])

\* the parse in progress is about to read a zero contract address
AtZeroAddress ==
    /\ pc = "contract_update" /\ Len(contract_updates) < num_contracts
    /\ parser.current # <<>> /\ is_zero(Head(parser.current))

\* C13: in every lookup-usage state a zero contract address makes
\* parse_contract_update fail with 'Zero address' once the address, and nothing
\* after it, has been consumed; the Lookup is not touched.
C13_ZeroAddress ==
    /\ \A st \in {Off, One, ExpandState, On} :
          LET r == ZeroAddressParse(st) IN
          /\ r.res = Err("Zero address")
          /\ r.p.current = parser.current
          /\ r.p.lookup = Self /\ r.p.lookup_usage_state = st
    /\ AtZeroAddress =>
          LET r == parse_contract_update(Borrow(parser)) IN
          r.res = Err("Zero address") /\ r.p.current = Tail(parser.current)
    /\ (ParseEnded /\ input.blob = BlobNo(ZeroAddressBlob)) => ~ret.res.ok

\* the parse of a blob whose third address is zero has committed the alias
\* contract's entry and then ended with 'Zero address'
C13_Witness ==
    /\ ParseEnded /\ input.blob = BlobNo(ZeroAddressBlob)
    /\ ret.res = Err("Zero address")
    /\ TableSize(db) = 1 /\ TableSize(input.db) = 0

\* C14 as stated: the parse of the sequence of 4096 zeros ends with the error
\* 'Missing number of contract updates'
C14_AllZeroMissingNumber ==
    (ParseEnded /\ input.blob = BlobNo(AllZeroBlob)) =>
        ret.res = Err("Missing number of contract updates")

\* C14, amended: the parse of the sequence of 4096 zeros succeeds with no contract
\* update, no class declaration and a zero tail of 4094 elements, and leaves the
\* store alone; 'Missing number of contract updates' is the error of a sequence
\* with no element at all
C14_AllZeroParses ==
    /\ (ParseEnded /\ input.blob = BlobNo(AllZeroBlob)) =>
          /\ ret.res.ok
          /\ ret.res.v.contract_updates = <<>>
          /\ ret.res.v.class_declarations = <<>>
          /\ ret.res.v.tail_size = FIELD_ELEMENTS_PER_BLOB - 2
          /\ ret.res.v.range = DefaultRange
          /\ db = input.db
    /\ (pc = "contract_update" /\ input.blob = BlobNo(AllZeroBlob)) =>
          num_contracts = 0 /\ Len(parser.current) = FIELD_ELEMENTS_PER_BLOB - 1
    /\ LET c == ParseCount([Borrow(parser) EXCEPT !.current = <<>>],
                           "Missing number of contract updates")
       IN c.res = Err("Missing number of contract updates")

\* the parse of the all-zero sequence has ended
C14_Witness ==
    /\ ParseEnded /\ input.blob = BlobNo(AllZeroBlob)
    /\ ret.res.ok /\ ret.res.v.tail_size = FIELD_ELEMENTS_PER_BLOB - 2

\* the StateDiff of one contract update for address 1 with nonce 0, no class hash
\* and no storage update, no class declaration and no tail
SingleContractDiff ==
    [contract_updates |-> <<[address |-> Felt(1), nonce |-> 0,
                             new_class_hash |-> None, storage_updates |-> <<>>]>>,
     class_declarations |-> <<>>, range |-> DefaultRange, tail_size |-> 0]

\* C15 as stated: the parse of the sequence 1, pack(false, 0, 0), 0 succeeds with
\* the single contract update of address 1
C15_SingleContractAsStated ==
    (ParseEnded /\ input.blob = BlobNo(SingleContractBlob)) =>
        ret.res = Ok(SingleContractDiff)

\* C15, amended: the sequence 1, 1, pack(false, 0, 0), 0, whose first element is
\* the number of contract updates, parses into the single contract update of
\* address 1 with no tail, whatever the store holds; in the sequence
\* 1, pack(false, 0, 0), 0 the 1 is the count and the packed word, which is zero,
\* the address: its parse ends with 'Zero address'
C15_SingleContract ==
    /\ (ParseEnded /\ input.blob = BlobNo(CountedSingleBlob)) =>
          ret.res = Ok(SingleContractDiff) /\ db = input.db
    /\ (ParseEnded /\ input.blob = BlobNo(SingleContractBlob)) =>
          ret.res = Err("Zero address") /\ db = input.db
    /\ Pack1(FALSE, 0, 0) = Felt(0)

\* the parse of 1, 1, pack(false, 0, 0), 0 has ended over a store with an entry
C15_Witness ==
    /\ ParseEnded /\ input.blob = BlobNo(CountedSingleBlob)
    /\ ret.res.ok /\ TableSize(input.db) > 0

\* the range holding lo and hi
RangeOf(lo, up) == [min_seq_no |-> Some(lo), max_seq_no |-> Some(up)]

\* the storage update of contract 1 with key k, met with the range r
SentinelUpdate(r, k) ==
    StorageUpdateByState([Borrow(parser) EXCEPT !.lookup_usage_state = One, !.range = r],
                         Felt(k), Felt(42))

\* C16 as stated: the blob whose contract 1 has the single storage update with
\* key 100 parses into a StateDiff with the range 110 to 110
C16_RangePlusTen ==
    (ParseEnded /\ input.blob = BlobNo(IntroBlob) /\ ret.res.ok) =>
        ret.res.v.range = RangeOf(110, 110)

\* C16, amended: the range holds the key itself; the blob whose contract 1 has
\* the single storage update with key 100 parses into a StateDiff with the range
\* 100 to 100, and a storage update of contract 1 with key k widens a range just
\* as far as k
C16_RangeIsKey ==
    /\ (ParseEnded /\ input.blob = BlobNo(IntroBlob) /\ ret.res.ok) =>
          ret.res.v.range = RangeOf(100, 100)
    /\ SentinelUpdate(DefaultRange, 100).p.range = RangeOf(100, 100)
    /\ SentinelUpdate(RangeOf(100, 100), 99).p.range = RangeOf(99, 100)
    /\ SentinelUpdate(RangeOf(100, 100), 100).p.range = RangeOf(100, 100)
    /\ SentinelUpdate(RangeOf(100, 100), 110).p.range = RangeOf(100, 110)
    /\ SentinelUpdate(RangeOf(100, 100), 110).res = Ok([key |-> Felt(110), value |-> Felt(42)])

\* the parse of the blob with the storage update 100: 42 of contract 1 has
\* succeeded and committed the two entries of the alias contract
C16_Witness ==
    /\ ParseEnded /\ input.blob = BlobNo(IntroBlob) /\ ret.res.ok
    /\ IsSome(ret.res.v.range.min_seq_no)
    /\ TableSize(db) = 2 /\ TableSize(input.db) = 0

\* the last decompress has returned: its input and its result
Decompressed == decompressor.at = "idle" /\ IsSome(decompressor.input)
DecompInput == decompressor.input.v

\* C17: a flat sequence encoded by the reference compressor and followed by
\* zeros decompresses to that flat sequence and the number of the zeros; so does
\* the minimal header with one verbatim element and a bucket-index word of 0
C17_RoundTrip ==
    (Decompressed /\ DecompInput.kind \in {"compressed", "minimal"}) =>
        ret.res = Ok(<<DecompInput.flat, DecompInput.tail>>)

\* a sequence of three elements, one of them repeated, with zeros behind it has
\* been decompressed
C17_Witness ==
    /\ Decompressed /\ DecompInput.kind = "compressed"
    /\ Len(DecompInput.flat) = 3 /\ DecompInput.flat[1] = DecompInput.flat[3]
    /\ DecompInput.flat[1] # DecompInput.flat[2]
    /\ DecompInput.tail > 0
    /\ ret.res.ok /\ ret.res.v[1] = DecompInput.flat

\* digit k of the header h in base 2^20, read off the bits
HeaderDigit(h, k) == SumPow({b - 20 * k : b \in {x \in h : 20 * k <= x /\ x < 20 * (k + 1)}})
HeaderSizes(h) == [i \in 1..8 |-> HeaderDigit(h, i)]

\* C18: decompress fails with 'nothing to decompress' on an empty input; it
\* reads the first element as nine digits of 20 bits and fails with 'high
\* header bits set' if a bit at 180 or above is set, else with 'invalid
\* compression version' if digit 0 is not zero; otherwise it goes on with the
\* digits 1..8 as its sizes, and none of the three errors is returned later
C18_HeaderValidation ==
    IsSome(decompressor.input) =>
        IF DecompInput.seq = <<>>
        THEN Decompressed /\ ret.res = Err("nothing to decompress")
        ELSE IF \E b \in Head(DecompInput.seq) : b >= 180
        THEN Decompressed /\ ret.res = Err("high header bits set")
        ELSE IF HeaderDigit(Head(DecompInput.seq), 0) # 0
        THEN Decompressed /\ ret.res = Err("invalid compression version")
        ELSE IF Decompressed
        THEN ret.res \notin {Err("nothing to decompress"), Err("high header bits set"),
                             Err("invalid compression version")}
        ELSE decompressor.sizes = HeaderSizes(Head(DecompInput.seq))

\* a header with a bit past its nine digits and a version of 1 has been refused
\* for its high bits
C18_Witness ==
    /\ Decompressed /\ DecompInput.kind = "header" /\ DecompInput.flips = {0, 180}
    /\ Len(DecompInput.flat) = 2
    /\ ret.res = Err("high header bits set")

\* the sum of the lengths of the buckets 0..5 and of the repeating values
BucketSum(sizes) == SumTo(sizes, 8) - sizes[1]

\* C19: decompress goes past the unique values only if the header's total length
\* is the number of unique values unpacked plus n_repeating, and a decompress
\* that succeeds had a header with sizes[0] = sizes[1] + ... + sizes[7], which is
\* the length of the sequence it returns
C19_ConsistencyCheck ==
    /\ decompressor.at = "repeating_values" =>
          decompressor.sizes[1] = Len(decompressor.all_values) + decompressor.sizes[8]
    /\ decompressor.at \in {"bucket_index", "reconstruct", "zero_tail"} =>
          decompressor.sizes[1] = Len(decompressor.all_values)
    /\ decompressor.at \in {"repeating_values", "bucket_index", "reconstruct", "zero_tail"} =>
          decompressor.sizes[1] = BucketSum(decompressor.sizes)
    /\ (Decompressed /\ ret.res.ok) =>
          LET sizes == HeaderSizes(Head(DecompInput.seq)) IN
          sizes[1] = BucketSum(sizes) /\ Len(ret.res.v[1]) = sizes[1]

\* a header whose total length was changed, over intact unique values, has been
\* refused for its length
C19_Witness ==
    /\ Decompressed /\ DecompInput.kind = "header" /\ DecompInput.flips = {20}
    /\ Len(DecompInput.flat) = 3
    /\ ret.res = Err("uncompressed length")

\* the first nonzero element of the sequence s, or 0 if there is none
FirstNonzero(s) ==
    IF \A i \in 1..Len(s) : is_zero(s[i]) THEN 0
    ELSE SetMin({i \in 1..Len(s) : ~is_zero(s[i])})

\* what check_zero_tail has to make of the rest: the count of the elements if all
\* are zero and nothing left, else 'Extra tail' with the first nonzero one taken
TailChecked(rest, res, left) ==
    IF FirstNonzero(rest) = 0 THEN res = Ok(Len(rest)) /\ left = <<>>
    ELSE res = Err("Extra tail") /\ left = SubSeq(rest, FirstNonzero(rest) + 1, Len(rest))

\* C12: after the bucket-index stream the decompressor, and the parser given the
\* same rest after its class declarations, accept the rest only if every element
\* is zero: they fail at the first nonzero one, and else return the number of
\* elements left (0 too) with the iterator at its end; decompress returns that
\* number, or the failure
C12_ZeroTail ==
    /\ decompressor.at = "zero_tail" =>
          LET d == decomp_check_zero_tail(DecompSelf)
              p == check_zero_tail([Borrow(parser) EXCEPT !.current = decompressor.current])
          IN /\ TailChecked(decompressor.current, d.res, d.d.current)
             /\ TailChecked(decompressor.current, p.res, p.p.current)
             /\ p.p.lookup = Self
    /\ (Decompressed /\ DecompInput.kind = "nonzero_tail") => ret.res = Err("Extra tail")
    /\ (Decompressed /\ ret.res.ok) =>
          /\ ret.res.v[2] <= Len(DecompInput.seq)
          /\ \A i \in 1..ret.res.v[2] :
                is_zero(DecompInput.seq[Len(DecompInput.seq) + 1 - i])

\* a sequence with zeros, a nonzero element and a zero behind it has been refused
C12_Witness ==
    /\ Decompressed /\ DecompInput.kind = "nonzero_tail" /\ DecompInput.tail = 1
    /\ Len(DecompInput.flat) = 2
    /\ ret.res = Err("Extra tail")

\* the number held in the bits lo..up-1 of the word w
FieldOf(w, lo, up) == SumPow({b - lo : b \in {x \in w : lo <= x /\ x < up}})

\* the word 18446744073709551617 = 2^64 + 1
SpecExample == {0, 64}

\* C20: with the v0.13.1 constants the unpacking of a word below 2^252 fails,
\* with 'Extra high bits', exactly if a bit at 129 or above is set; else it
\* returns bit 128 as class_flag, the bits 64..127 as nonce and the bits 0..63 as
\* update_count; 18446744073709551617 gives (false, 1, 1)
C20_UnpackV0_13_1 ==
    /\ (ret.op = "unpack_contract_update" /\ ret.version = "v0_13_1") =>
          IF \E b \in ret.packed : b >= 129
          THEN ret.res = Err("Extra high bits")
          ELSE ret.res = Ok(<<128 \in ret.packed, FieldOf(ret.packed, 64, 128),
                              FieldOf(ret.packed, 0, 64)>>)
    /\ unpack_contract_update(v0_13_1_make_pack_const, SpecExample) = Ok(<<FALSE, 1, 1>>)
    /\ SpecExample \in PackedWords

\* a word with bit 129 alone above its fields has been refused
C20_Witness ==
    /\ ret.op = "unpack_contract_update" /\ ret.version = "v0_13_1"
    /\ 129 \in ret.packed /\ \A b \in ret.packed : b <= 129
    /\ 128 \in ret.packed /\ 64 \in ret.packed /\ 0 \in ret.packed
    /\ ret.res = Err("Extra high bits")

\* C21: with the v0.13.3 constants bit 0 is class_flag and bit 1 selects the
\* layout; a long word (bit 1 clear) fails exactly if a bit at 130 or above is
\* set and else gives the bits 66..129 as nonce and 2..65 as update_count; a
\* short word fails exactly if a bit at 74 or above is set and else gives the
\* bits 10..73 as nonce and 2..9 as update_count; 46, 3074 and 0x5b8 give
\* (false, 0, 11), (false, 3, 0) and (false, 0, 366)
C21_UnpackV0_13_3 ==
    /\ (ret.op = "unpack_contract_update" /\ ret.version = "v0_13_3") =>
          IF 1 \in ret.packed
          THEN IF \E b \in ret.packed : b >= 74
               THEN ret.res = Err("Extra high bits")
               ELSE ret.res = Ok(<<0 \in ret.packed, FieldOf(ret.packed, 10, 74),
                                   FieldOf(ret.packed, 2, 10)>>)
          ELSE IF \E b \in ret.packed : b >= 130
               THEN ret.res = Err("Extra high bits")
               ELSE ret.res = Ok(<<0 \in ret.packed, FieldOf(ret.packed, 66, 130),
                                   FieldOf(ret.packed, 2, 66)>>)
    /\ unpack_contract_update(v0_13_3_make_pack_const, Felt(46)) = Ok(<<FALSE, 0, 11>>)
    /\ unpack_contract_update(v0_13_3_make_pack_const, Felt(3074)) = Ok(<<FALSE, 3, 0>>)
    /\ unpack_contract_update(v0_13_3_make_pack_const, Felt(1464)) = Ok(<<FALSE, 0, 366>>)

\* a short word with the class flag, a nonce and the largest count of 8 bits has
\* been unpacked
C21_Witness ==
    /\ ret.op = "unpack_contract_update" /\ ret.version = "v0_13_3"
    /\ 1 \in ret.packed /\ 0 \in ret.packed
    /\ ret.res = Ok(<<TRUE, 2, 255>>)

\* the least k with 2^k >= n, for n of 1 up to 2^30
CeilLog2(n) == CHOOSE k \in 0..30 : 2^k >= n /\ \A j \in 0..(k - 1) : 2^j < n

\* C22: get_n_elms_per_felt(bound) is 251 for a bound below 2 and the whole part
\* of 251 / ceil(log2(bound)) from 2 on; it is 251 for 2, 83 for 7 and 16 for
\* 2^15 - 1
C22_DynamicPackCount ==
    /\ ret.op = "get_n_elms_per_felt" =>
          ret.res = Ok(IF ret.elm_bound < 2 THEN 251
                       ELSE 251 \div CeilLog2(ret.elm_bound))
    /\ get_n_elms_per_felt(2) = 251
    /\ get_n_elms_per_felt(7) = 83
    /\ get_n_elms_per_felt(2^15 - 1) = 16

\* the count for a bound just past a power of two has been computed
C22_Witness ==
    /\ ret.op = "get_n_elms_per_felt" /\ ret.elm_bound = 2^15 + 1
    /\ ret.res = Ok(15)

(* C23 *)

\* the value at x of the polynomial with the coefficients c[from..]
RECURSIVE Horner(_, _, _)
Horner(c, x, from) ==
    IF from > Len(c) THEN 0
    ELSE (c[from] + x * Horner(c, x, from + 1)) % bls_modulus

Evaluate(c, x) == Horner(c, x, 1)

Transformed == ret.op = "transform"

BelowModulus(arr) == \A i \in DOMAIN arr : arr[i] < bls_modulus

\* C23: the transform of a vector of elements below the modulus, given in
\* bit-reversed evaluation order, has the length of the vector and is the
\* coefficient vector c of the polynomial that takes the value arr[j] at
\* points[j], for every j; it is the element-wise merge of the transforms
\* of the two halves the butterflies produce: out[2i] = e0[i] and
\* out[2i+1] = e1[i], counting from zero
C23_InverseTransform ==
    (Transformed /\ BelowModulus(ret.arr)) =>
        /\ ret.res.ok
        /\ Len(ret.res.v) = TransformLen
        /\ BelowModulus(ret.res.v)
        /\ \A j \in 1..TransformLen :
              Evaluate(ret.res.v, points[j]) = ret.arr[j]
        /\ LET h == Butterflies(ret.arr, points).v
               e0 == ifft(h.res0, h.new_xs).v
               e1 == ifft(h.res1, h.new_xs).v
           IN \A i \in 0..(TransformLen \div 2 - 1) :
                 /\ ret.res.v[2 * i + 1] = e0[i + 1]
                 /\ ret.res.v[2 * i + 2] = e1[i + 1]

\* a vector whose coefficients are all different from its evaluations and
\* whose halves differ has been transformed
C23_Witness ==
    /\ Transformed
    /\ BelowModulus(ret.arr)
    /\ ret.res.ok
    /\ ret.arr = <<5, 0, 0, 16>>
    /\ ret.res.v # ret.arr
    /\ \E i \in 1..(TransformLen - 1) : ret.res.v[i] # ret.res.v[i + 1]

(* C24 *)

\* C24: the transform of every vector of the transform's length, elements
\* at or above the modulus included, returns a vector whose elements are
\* all below the modulus
C24_NoRuntimeFailure ==
    Transformed => (ret.res.ok /\ BelowModulus(ret.res.v))

(* C25 *)

Projected == ret.op = "to_json_state_diff"

\* the place in the diff of the contract whose address is emitted as a
PlaceOf(sd, a) ==
    CHOOSE n \in 1..Len(sd.contract_updates) :
        convert_biguint(sd.contract_updates[n].address) = a

\* addrs names the contracts of sd that satisfy keep, each once, in the
\* order of the diff
ExactlyInOrder(sd, addrs, keep(_)) ==
    LET cus == sd.contract_updates IN
    /\ \A n \in 1..Len(cus) :
          keep(cus[n]) <=>
              \E i \in 1..Len(addrs) : addrs[i] = convert_biguint(cus[n].address)
    /\ Len(addrs) = Cardinality({n \in 1..Len(cus) : keep(cus[n])})
    /\ \A i, k \in 1..Len(addrs) :
          i < k => PlaceOf(sd, addrs[i]) < PlaceOf(sd, addrs[k])

\* C25: to_json_state_diff lists under storage_diffs exactly the contracts
\* with at least one storage update, with their entries; under
\* deployed_or_replaced exactly the contracts whose new_class_hash is set,
\* with that hash; under nonces exactly the contracts whose nonce is not
\* zero, with that nonce; each list in the order of the contracts; and under
\* declared_classes every class declaration, in order
C25_JsonProjection ==
    Projected =>
        LET sd == ret.sd
            j == ret.res.v
            cus == sd.contract_updates
            WithStorage(cu) == cu.storage_updates # <<>>
            WithClass(cu) == cu.new_class_hash # None
            WithNonce(cu) == cu.nonce > 0
        IN /\ ExactlyInOrder(sd, [i \in 1..Len(j.storage_diffs) |->
                                     j.storage_diffs[i].address], WithStorage)
           /\ \A i \in 1..Len(j.storage_diffs) :
                 LET cu == cus[PlaceOf(sd, j.storage_diffs[i].address)]
                     e == j.storage_diffs[i].storage_entries
                 IN /\ Len(e) = Len(cu.storage_updates)
                    /\ \A k \in 1..Len(e) :
                          /\ e[k].key = convert_biguint(cu.storage_updates[k].key)
                          /\ e[k].value = convert_biguint(cu.storage_updates[k].value)
           /\ ExactlyInOrder(sd, [i \in 1..Len(j.deployed_or_replaced) |->
                                     j.deployed_or_replaced[i].address], WithClass)
           /\ \A i \in 1..Len(j.deployed_or_replaced) :
                 j.deployed_or_replaced[i].class_hash =
                     convert_biguint(
                         cus[PlaceOf(sd, j.deployed_or_replaced[i].address)].new_class_hash.v)
           /\ ExactlyInOrder(sd, [i \in 1..Len(j.nonces) |->
                                     j.nonces[i].contract_address], WithNonce)
           /\ \A i \in 1..Len(j.nonces) :
                 j.nonces[i].nonce =
                     convert_biguint(Felt(cus[PlaceOf(sd, j.nonces[i].contract_address)].nonce))
           /\ Len(j.declared_classes) = Len(sd.class_declarations)
           /\ \A i \in 1..Len(j.declared_classes) :
                 /\ j.declared_classes[i].class_hash
                        = convert_biguint(sd.class_declarations[i].class_hash)
                 /\ j.declared_classes[i].compiled_class_hash
                        = convert_biguint(sd.class_declarations[i].compiled_class_hash)

\* two contracts, the first with storage only, the second with a class
\* hash and a nonce only, and one declared class
C25_Witness ==
    /\ Projected
    /\ Len(ret.sd.contract_updates) = 2
    /\ ret.res.v.storage_diffs =
           <<[address |-> "0x2a",
              storage_entries |-> <<[key |-> "0x1", value |-> "0x14"]>>]>>
    /\ ret.res.v.deployed_or_replaced = <<[address |-> "0x2b", class_hash |-> "0x25"]>>
    /\ ret.res.v.nonces = <<[contract_address |-> "0x2b", nonce |-> "0x1"]>>
    /\ ret.res.v.declared_classes =
           <<[class_hash |-> "0xc06", compiled_class_hash |-> "0x0"]>>

(* C26 *)

\* the sequence uncond_parse was given
GivenSeq ==
    IF IsSome(decompressor.input) THEN decompressor.input.v.seq ELSE input.seq

FitsUsize(f) == IsSome(to_u64(f))

Parsing == pc \in {"contract_updates", "contract_update", "zero_tail"}

\* C26: a sequence whose first element fits usize is never decompressed: it
\* is parsed as it is, with the pack constants of v0.13.1; a sequence whose
\* first element does not fit usize is parsed only after decompress has
\* returned a sequence for it, and it is that sequence which is parsed, with
\* the pack constants of v0.13.3
C26_FormatDetection ==
    [][/\ (decompressor' # decompressor /\ decompressor = NoDecompressor)
              => ~FitsUsize(decompressor'.input.v.seq[1])
       /\ (~Parsing /\ Parsing') =>
              IF FitsUsize(GivenSeq'[1])
              THEN /\ decompressor' = NoDecompressor
                   /\ parser'.current = GivenSeq'
              ELSE /\ ret.op = "decompress" /\ ret.res.ok
                   /\ decompressor.input.v.seq = GivenSeq'
                   /\ parser'.current = ret.res.v[1]
       /\ Parsing' =>
              parser'.pack_const =
                  IF FitsUsize(GivenSeq'[1]) THEN "v0_13_1" ELSE "v0_13_3"]_vars

\* a compressed sequence has been decompressed and parsed as v0.13.3: one
\* contract with nonce 1, which the pack constants of v0.13.1 would not give
C26_Witness ==
    /\ ret.op = "parse"
    /\ ret.res.ok
    /\ IsSome(decompressor.input)
    /\ ~FitsUsize(GivenSeq[1])
    /\ Len(ret.res.v.contract_updates) = 1
    /\ ret.res.v.contract_updates[1].nonce = 1
    /\ ret.res.v.contract_updates[1].address = Felt(5)

(* C27 *)

Fetching == ret.op = "repeat_get"

Retried(r) == r.kind = "error" \/ r.status >= 400

\* C27: a call of repeat_get sends at most 5 GETs; every GET but the last
\* one sent met a transport error or a status of 400 or more; a status from
\* 200 to 399 ends the call with that response, a status below 200 ends it
\* with an error, in both cases with no further GET; after a transport
\* error or a status of 400 or more the call goes on to the next GET unless
\* this was the fifth, and then it ends with the error 'can't get blob'
C27_FetchRetry ==
    Fetching =>
        LET n == Len(ret.sent) IN
        /\ n <= 5
        /\ \A i \in 1..(n - 1) : Retried(ret.sent[i])
        /\ n = 0 => pc = "get"
        /\ n > 0 =>
              LET last == ret.sent[n] IN
              /\ (last.kind = "response" /\ last.status \in 200..399) =>
                     (pc = "idle" /\ ret.res = Ok(last))
              /\ (last.kind = "response" /\ last.status < 200) =>
                     (pc = "aborted" /\ ~ret.res.ok /\ ret.res.err = "got status")
              /\ (Retried(last) /\ n < 5) =>
                     (pc = "get" /\ ret.res = None /\ ret.attempt = n + 1)
              /\ (Retried(last) /\ n = 5) =>
                     (pc = "aborted" /\ ret.res = Err("can't get blob"))

\* the fifth GET, after four failures of both kinds, was answered
C27_Witness ==
    /\ Fetching
    /\ Len(ret.sent) = 5
    /\ ret.sent[1] = TransportError
    /\ ret.sent[4] = Response(503)
    /\ ret.res = Ok(Response(204))

(* C28 *)

Aborted(res) == ~res.ok /\ "panic" \in DOMAIN res

\* C28: decompress returns Ok or Err for every sequence and never aborts
C28_NeverAborts == Decompressed => ~Aborted(ret.res)

(* C29 *)

InParse(at) == at \in {"contract_updates", "contract_update", "zero_tail"}

\* the step is a parse_contract_update that reads an address and returns a
\* contract update
AddressRead ==
    /\ pc = "contract_update"
    /\ Len(contract_updates) < num_contracts
    /\ Len(contract_updates') = Len(contract_updates) + 1

\* the state the parser is left in by the address a read in state s
AfterAddress(s, a, on) ==
    IF s = Off THEN (IF a = Felt(1) THEN One ELSE Off)
    ELSE IF s = One
    THEN (IF a = Felt(2) THEN ExpandState
          ELSE IF FeltGt(a, Felt(2)) /\ on THEN On
          ELSE Off)
    ELSE s

\* C29: a parse starts in state Off; the state is the same before and after
\* every step of a parse that reads no contract address; the address a read in
\* state Off leaves One if a = 1 and Off otherwise; read in state One it
\* leaves Expand if a = 2, On if a > 2 and lookup.is_on() holds, the address
\* then being the table's entry for a, and Off otherwise; read in state On it
\* leaves On.  (Expand ends with the contract update that entered it, which
\* returns in state On.)
C29_ParserFsm ==
    [][/\ (~InParse(pc) /\ InParse(pc')) => parser'.lookup_usage_state = Off
       /\ (InParse(pc) /\ InParse(pc') /\ ~AddressRead) =>
              parser'.lookup_usage_state = parser.lookup_usage_state
       /\ AddressRead =>
              LET s == parser.lookup_usage_state
                  a == Head(parser.current)
                  t == AfterAddress(s, a, is_on(Self).v)
                  read == ResolveAddress(Borrow(parser), a)
              IN /\ read.res.ok
                 /\ read.p.lookup_usage_state = t
                 /\ (s = One /\ t = On) => read.res = get(Self, FeltNat(a))
                 /\ contract_updates'[Len(contract_updates')].address = read.res.v
                 /\ parser'.lookup_usage_state = IF t = ExpandState THEN On ELSE t]_vars

OnBlobNo == Len(Blobs) + 1

\* OnBlob is being parsed with the table on: its first address was 1, its
\* second, 128, has led from One to On, and its third has been read in On
C29_Witness ==
    /\ pc = "contract_update"
    /\ input.blob = OnBlobNo
    /\ Len(contract_updates) = 3
    /\ AddressesOf(contract_updates) = <<Felt(1), FeltA, FeltB>>
    /\ parser.lookup_usage_state = On

(* C30 *)

\* the step is a parse_contract_update, returning a contract update or not
UpdateStep == pc = "contract_update" /\ Len(contract_updates) < num_contracts

\* what the table holds for the felt f, if f is an index of the table
InTable(f) == FitsUsize(f) /\ get(Self, FeltNat(f)).ok

\* the i-th key and value of the contract update at the head of current
RawUpdate(i) ==
    LET u == unpack_contract_update(PackConstOf(parser.pack_const), parser.current[2])
        first == IF u.v[1] THEN 4 ELSE 3
    IN [key |-> parser.current[first + 2 * (i - 1)],
        value |-> parser.current[first + 2 * (i - 1) + 1]]

\* C30: an address a read in state On is returned as lookup.get(a), and the
\* parse fails if a does not fit usize, is below 128 or is not in the table;
\* of the storage updates read in state On, a key of 128 or more is returned
\* as lookup.get(key), a key below 128 is returned as it is, and so is every
\* value; an address read in state Off, and the keys and values read in
\* state Off, are returned as they are
C30_Resolution ==
    [][UpdateStep =>
          LET s == parser.lookup_usage_state
              a == Head(parser.current)
              cu == contract_updates'[Len(contract_updates')]
              \* the state the storage updates are read in
              t == AfterAddress(s, a, is_on(Self).v)
          IN /\ (s = On /\ ~InTable(a)) => (~AddressRead /\ ~ret'.res.ok)
             /\ (s = On /\ AddressRead) => cu.address = get(Self, FeltNat(a)).v
             /\ (s = Off /\ AddressRead) => cu.address = a
             /\ (AddressRead /\ t \in {Off, On}) =>
                   \A i \in 1..Len(cu.storage_updates) :
                      /\ cu.storage_updates[i].value = RawUpdate(i).value
                      /\ cu.storage_updates[i].key =
                            IF t = On /\ FeltGe(RawUpdate(i).key, Felt(128))
                            THEN get(Self, FeltNat(RawUpdate(i).key)).v
                            ELSE RawUpdate(i).key]_vars

\* OnBlob has been parsed with the table on: the address 128 came out as
\* FeltA with the key 5 and the value 200 as they were and the key 129 as
\* FeltB, and the address 129, read in state On, came out as FeltB
C30_Witness ==
    /\ ParseEnded
    /\ ret.res.ok
    /\ input.blob = OnBlobNo
    /\ AddressesOf(ret.res.v.contract_updates) = <<Felt(1), FeltA, FeltB>>
    /\ ret.res.v.contract_updates[2].storage_updates =
           <<[key |-> Felt(5), value |-> Felt(7)], [key |-> FeltB, value |-> Felt(200)]>>

(* C31 *)

\* the packed word of the contract update at the head of current, unpacked
RawPacked == unpack_contract_update(PackConstOf(parser.pack_const), parser.current[2])

\* the step reads the address of the alias contract in state One
AliasEntered ==
    /\ UpdateStep
    /\ parser.lookup_usage_state = One
    /\ Head(parser.current) = Felt(2)

\* the storage updates of the contract update at the head of current, read
\* in state Expand
AliasUpdates ==
    LET first == IF RawPacked.v[1] THEN 4 ELSE 3 IN
    StorageUpdates([Borrow(parser) EXCEPT
                       !.lookup_usage_state = ExpandState,
                       !.current = SubSeq(parser.current, first, Len(parser.current))],
                   RawPacked.v[3], <<>>)

\* C31: no step of a parse begins or ends in state Expand, so the state
\* covers the storage updates of the alias contract and nothing else; the
\* contract update that reads address 2 in state One leaves the Lookup as
\* one call of expand leaves it after the last storage update and returns in
\* state On, or fails with the error of a storage update or of expand; every
\* other contract update leaves scratchpad and store alone, and from On no
\* parse comes back to the alias contract, so a parse commits at most once;
\* an address read in state Expand would be an error
C31_ExpandOncePerParse ==
    [][/\ InParse(pc') => parser'.lookup_usage_state # ExpandState
       /\ (UpdateStep /\ ~AliasEntered) => (scratchpad' = scratchpad /\ db' = db)
       /\ (UpdateStep /\ parser.lookup_usage_state = On /\ AddressRead) =>
              parser'.lookup_usage_state = On
       /\ UpdateStep =>
              \A a \in {Felt(1), Felt(2), Felt(5), Felt(128)} :
                 ~ResolveAddress([Borrow(parser) EXCEPT !.lookup_usage_state = ExpandState],
                                 a).res.ok
       /\ AliasEntered =>
              IF AliasUpdates.res.ok
              THEN LET e == expand(AliasUpdates.p.lookup) IN
                   /\ SelfNext = e.lk
                   /\ AddressRead <=> e.res.ok
                   /\ AddressRead => parser'.lookup_usage_state = On
                   /\ ~AddressRead => ret'.res = Err(e.res.err)
              ELSE /\ ~AddressRead
                   /\ db' = db
                   /\ ret'.res = AliasUpdates.res]_vars

\* the alias contract of IntroBlob has been read over an empty store: its
\* three storage updates are followed by the commit of 128 and 129, the
\* scratchpad is empty again and the parser is in state On
C31_Witness ==
    /\ pc = "contract_update"
    /\ input.blob = 1
    /\ input.db = EmptyDb
    /\ Len(contract_updates) = 2
    /\ contract_updates[2].address = Felt(2)
    /\ Len(contract_updates[2].storage_updates) = 3
    /\ parser.lookup_usage_state = On
    /\ DOMAIN Table(db) = {128, 129}
    /\ scratchpad = EmptyMap

(* C32 *)

\* the storage update i of the alias contract at the head of current cannot
\* be recorded: its value is no usize, or an index below 128, or an index an
\* earlier storage update of the contract has recorded
Rejected(i) ==
    /\ ~is_zero(RawUpdate(i).key)
    /\ \/ ~FitsUsize(RawUpdate(i).value)
       \/ FeltNat(RawUpdate(i).value) < START_INDEX
       \/ FeltNat(RawUpdate(i).value) \in DOMAIN scratchpad
       \/ \E j \in 1..(i - 1) : /\ ~is_zero(RawUpdate(j).key)
                                /\ RawUpdate(j).value = RawUpdate(i).value

\* the storage updates of the contract at the head of current that have a
\* key other than zero
Keyed == {i \in 1..RawPacked.v[3] : ~is_zero(RawUpdate(i).key)}

\* C32: of the storage updates read in state Expand, one with key 0 records
\* nothing and every other one records one scratchpad entry, the key under
\* the index its value names; the parse fails if a value is no usize or
\* record rejects the index; the StorageUpdate returned is the key and the
\* value as they were read
C32_ExpandRecords ==
    [][(AliasEntered /\ 2 + 2 * RawPacked.v[3] <= Len(parser.current)) =>
          LET n == RawPacked.v[3]
              after == AliasUpdates.p.lookup.scratchpad
          IN IF \E i \in 1..n : Rejected(i)
             THEN /\ ~AliasUpdates.res.ok
                  /\ ~AddressRead
                  /\ ret'.res = AliasUpdates.res
                  /\ db' = db
             ELSE /\ AliasUpdates.res.ok
                  /\ DOMAIN after = DOMAIN scratchpad
                                       \cup {FeltNat(RawUpdate(i).value) : i \in Keyed}
                  /\ Cardinality(DOMAIN after) =
                        Cardinality(DOMAIN scratchpad) + Cardinality(Keyed)
                  /\ \A i \in Keyed : after[FeltNat(RawUpdate(i).value)] = RawUpdate(i).key
                  /\ \A x \in DOMAIN scratchpad : after[x] = scratchpad[x]
                  /\ AliasUpdates.res.v = [i \in 1..n |-> RawUpdate(i)]
                  /\ AddressRead =>
                        contract_updates'[Len(contract_updates')].storage_updates =
                            [i \in 1..n |-> RawUpdate(i)]]_vars

\* the alias contract of IntroBlob has been read over an empty store: the
\* counter under key 0 is returned and not recorded, FeltA and FeltB are
\* returned with the indices 128 and 129 and have been committed under them
C32_Witness ==
    /\ pc = "contract_update"
    /\ input.blob = 1
    /\ input.db = EmptyDb
    /\ Len(contract_updates) = 2
    /\ contract_updates[2].storage_updates =
           <<[key |-> Felt(0), value |-> Felt(130)],
             [key |-> FeltA, value |-> Felt(128)],
             [key |-> FeltB, value |-> Felt(129)]>>
    /\ Table(db) = (128 :> to_bytes_be(FeltA)) @@ (129 :> to_bytes_be(FeltB))

(* C33 *)

\* the keys of the contract update at the head of current
RawKeys == {RawUpdate(i).key : i \in 1..RawPacked.v[3]}

\* the smaller and the larger of an optional number and a set of numbers
Lowest(o, S) == LET T == S \cup (IF IsSome(o) THEN {o.v} ELSE {}) IN
                IF T = {} THEN None ELSE Some(SetMin(T))
Highest(o, S) == LET T == S \cup (IF IsSome(o) THEN {o.v} ELSE {}) IN
                 IF T = {} THEN None ELSE Some(SetMax(T))

\* C33: the range of a parse starts with both ends absent; a contract update
\* whose storage updates are read in state One leaves min_seq_no the lowest
\* and max_seq_no the highest of the range before and the keys read, also
\* when a key lies below the minimum so far, and ends the parse with an error
\* if a key does not fit u64; every other step leaves the range as it is;
\* both ends are absent or both present with min_seq_no <= max_seq_no, and
\* the StateDiff returned carries the range of the parser
C33_SeqNoRange ==
    [][/\ (~InParse(pc) /\ InParse(pc')) => parser'.range = DefaultRange
       /\ InParse(pc') =>
              /\ IsSome(parser'.range.min_seq_no) <=> IsSome(parser'.range.max_seq_no)
              /\ IsSome(parser'.range.min_seq_no) =>
                     parser'.range.min_seq_no.v <= parser'.range.max_seq_no.v
       /\ (InParse(pc) /\ InParse(pc') /\ ~AddressRead) => parser'.range = parser.range
       /\ (pc = "zero_tail" /\ ret'.res.ok) => ret'.res.v.range = parser.range
       /\ UpdateStep =>
              LET t == AfterAddress(parser.lookup_usage_state, Head(parser.current),
                                    is_on(Self).v)
              IN IF t = One
                 THEN IF \E k \in RawKeys : ~IsSome(to_u64(k))
                      THEN ~AddressRead /\ ret'.res = Err("Casting 0x1 key")
                      ELSE /\ AddressRead
                           /\ parser'.range =
                                 [min_seq_no |-> Lowest(parser.range.min_seq_no,
                                                        {FeltNat(k) : k \in RawKeys}),
                                  max_seq_no |-> Highest(parser.range.max_seq_no,
                                                         {FeltNat(k) : k \in RawKeys})]
                 ELSE AddressRead => parser'.range = parser.range]_vars

\* the blob with the keys 100 and 50 under contract 1, the key 3 under
\* contract 5 and the key 70 under contract 1 again has been parsed: the
\* range is 50..100, the key read below the minimum having lowered it
C33_Witness ==
    /\ ParseEnded
    /\ ret.res.ok
    /\ input.blob = Len(AllBlobs) - 2
    /\ ret.res.v.range = [min_seq_no |-> Some(50), max_seq_no |-> Some(100)]
    /\ Len(ret.res.v.contract_updates[1].storage_updates) = 2

(* C34 *)

\* the sequence given to the parse in progress
ParsedSeq == AllBlobs[input.blob].seq

\* C34: when a parse returns a StateDiff, every element of the sequence has
\* been consumed, and the annotation sink has received one record for each
\* of them
C34_AnnotationComplete ==
    [][(pc = "zero_tail" /\ ret'.op = "parse" /\ ret'.res.ok) =>
          parser.anno_dump = Len(ParsedSeq)]_<<pc>>

(* C35 *)

Dumping == pc \in {"dump", "aborted"} /\ ret.op # "new"

\* (block, repeat) pairs in their order
PairBefore(b1, r1, b2, r2) == b1 < b2 \/ (b1 = b2 /\ r1 < r2)

\* C35: set_block_no returns an error for a block number below the current
\* one and leaves the Dumper as it was; an equal block number adds one to the
\* repeat counter and a higher one (or the first) sets the block with the
\* repeat counter at 0, so every accepted call moves the pair (block, repeat)
\* strictly up; two dump targets with the same extension and the same name
\* were made under the same block and repeat
C35_DumperOrdering ==
    [][(pc = "dump" /\ ret'.op = "Dumper::set_block_no") =>
          LET d == ret.dumper
              e == ret'.dumper
          IN \E b \in DumpBlocks :
                IF IsSome(d.cur_block_no) /\ b < d.cur_block_no.v
                THEN ~ret'.res.ok /\ e = d
                ELSE /\ ret'.res.ok
                     /\ e.cur_block_no = Some(b)
                     /\ e.cur_block_repeat =
                           IF d.cur_block_no = Some(b) THEN d.cur_block_repeat + 1 ELSE 0
                     /\ IsSome(d.cur_block_no) =>
                           PairBefore(d.cur_block_no.v, d.cur_block_repeat,
                                      e.cur_block_no.v, e.cur_block_repeat)]_vars
    /\ [](Dumping =>
            \A s, t \in ret.made :
               (s.ext = t.ext /\ s.name = t.name) =>
                  (s.block = t.block /\ s.repeat = t.repeat))

\* block 1 was set twice and block 11 after it: the targets 1-1.seq and
\* 11.seq have been made, and block 2 has then been rejected
C35_Witness ==
    /\ Dumping
    /\ ret.op = "Dumper::set_block_no"
    /\ ~ret.res.ok
    /\ ret.dumper = [cur_block_no |-> Some(11), cur_block_repeat |-> 0]
    /\ {t.name : t \in ret.made} = {"1-1.seq", "11.seq"}

(* C36 *)

C38_ExpandClears == [][ret'.op = "expand" => scratchpad' = EmptyMap]_vars

(* C37 *)

\* C37: when a parse starts the scratchpad is empty, also when the parse
\* before it, with the same Lookup, has ended with an error
C37_ScratchpadOfOneBlob == pc = "contract_updates" => scratchpad = EmptyMap

(* C39 *)

\* the parse that has just returned was of the blob and block of the parse
\* i, which returned a StateDiff, and crest was at or past that block when
\* it started
Reparsed(i) ==
    /\ ParseEnded
    /\ i < Len(log)
    /\ log[i].blob = input.blob /\ log[i].block = input.block
    /\ log[i].ok
    /\ IsSome(Crest(input.db)) /\ input.block <= Crest(input.db).v

\* C39: a blob parsed again at its block number, once that block has been
\* committed, comes out as the StateDiff its first successful parse returned
C39_ReplayDeterminism == \A i \in 1..Len(log) : Reparsed(i) => ret.res = log[i].res

(* C40 *)

\* where the segment of bucket b begins in A, and where the cursor of the
\* bucket named at step k of the stream stands: the bucket's begin and one
\* more for every earlier step that names the same bucket
SegmentStart(sizes, b) == SumTo(SubSeq(sizes, 2, 8), b)
CursorAt(sizes, stream, k) ==
    SegmentStart(sizes, FeltNat(stream[k]))
        + Cardinality({j \in 1..(k - 1) : stream[j] = stream[k]})

\* C40: when decompress returns its data, the data has sizes[0] elements;
\* the element at each place is the one A holds under the cursor of the
\* bucket the stream names there, that cursor is inside the bucket's own
\* segment of A, and every place of A is emitted by exactly one step
C40_CursorsInSegments ==
    [][(decompressor.at = "zero_tail" /\ ret'.op = "decompress" /\ ret'.res.ok) =>
          LET A == decompressor.all_values
              sizes == decompressor.sizes
              stream == decompressor.bucket_index_per_elm
              data == ret'.res.v[1]
          IN /\ Len(data) = sizes[1]
             /\ \A k \in 1..Len(data) :
                   LET b == FeltNat(stream[k])
                       at == CursorAt(sizes, stream, k)
                   IN /\ data[k] = A[at + 1]
                      /\ SegmentStart(sizes, b) <= at
                      /\ at < SegmentStart(sizes, b) + sizes[b + 2]
             /\ \A p \in 1..Len(A) :
                   Cardinality({k \in 1..Len(data) :
                                   CursorAt(sizes, stream, k) = p - 1}) = 1]_<<decompressor.at>>

====
